---- MODULE Spec2Model ----
(***************************************************************************)
(* Model of the redmed client (atye/redmed): the reddit type of reddit.go  *)
(* (src/unnamed/part_000) and the three operations of redmed.go            *)
(* (src/redmed.go, lines 646-891).                                         *)
(*                                                                         *)
(* One top-level operation runs on one client.  The main goroutine, the    *)
(* upload units (one for PostImage, two sequential ones for PostVideo, one *)
(* goroutine per path for PostGallery) and the listener goroutine of       *)
(* waitForPostSuccess are separate processes; every remote exchange is one *)
(* step whose response is chosen by the remote side.                       *)
(*                                                                         *)
(* Strings that the code only compares are TLA+ strings; strings that the  *)
(* code takes apart (the redirect) are sequences of one-character strings. *)
(***************************************************************************)
EXTENDS Integers, Sequences, FiniteSets, TLC

\* ------------------------------------------------------------------ bounds
\* Largest number of paths in a PostGallery request.
MaxPaths == 2

\* Largest number of operations called one after the other on one client.
MaxCalls == 2

\* ------------------------------------------------------- program constants
StatusOK == 200
StatusCreated == 201

\* Statuses the remote side may answer with.
Statuses == {StatusOK, StatusCreated, 204, 500}

\* --------------------------------------------------------------- strings
Slash == "/"

\* strings.Split(s, "/"): the components between the separators; the empty
\* string gives one empty component.
RECURSIVE SplitFrom(_, _, _, _)
SplitFrom(s, i, cur, acc) ==
    IF i > Len(s) THEN Append(acc, cur)
    ELSE IF s[i] = Slash THEN SplitFrom(s, i + 1, <<>>, Append(acc, cur))
    ELSE SplitFrom(s, i + 1, Append(cur, s[i]), acc)

Split(s) == SplitFrom(s, 1, <<>>, <<>>)

T3Prefix == <<"t", "3", "_">>

\* A redirect .../r/<sub>/comments/<id>/<title>/ as the remote side builds it.
MkRedirect(prefix, sub, id, title) ==
    prefix \o <<"/", "r", "/">> \o sub
           \o <<"/", "c", "o", "m", "m", "e", "n", "t", "s", "/">> \o id
           \o <<"/">> \o title \o <<"/">>

Prefixes == { <<>>, <<"h", ":", "/", "/", "x">> }
Subs == { <<"s">> }
Ids == { <<"a", "1">>, <<"b">> }
Titles == { <<>>, <<"t">> }

WellFormedRedirects ==
    { MkRedirect(p, s, i, t) : p \in Prefixes, s \in Subs, i \in Ids, t \in Titles }

\* Redirects with fewer components, and the empty redirect.
OtherRedirects == { <<>>, <<"a">>, <<"a", "/", "b">>, <<"/", "b", "/">> }

Redirects == WellFormedRedirects \cup OtherRedirects

\* ----------------------------------------------------------------- paths
\* A source path, by the parts the code looks at: scheme and host (as
\* url.Parse finds them), base name and extension.
NoPath == [scheme |-> "", host |-> "", name |-> "", ext |-> ""]
LocalJpeg == [scheme |-> "", host |-> "", name |-> "img", ext |-> ".jpeg"]
LocalTxt == [scheme |-> "", host |-> "", name |-> "notes", ext |-> ".txt"]
RemotePng == [scheme |-> "https", host |-> "h", name |-> "pic", ext |-> ".png"]
RemoteBmp == [scheme |-> "https", host |-> "h", name |-> "pic", ext |-> ".bmp"]
LocalMp4 == [scheme |-> "", host |-> "", name |-> "clip", ext |-> ".mp4"]

LocalJpg == [scheme |-> "", host |-> "", name |-> "img", ext |-> ".jpg"]
LocalGif == [scheme |-> "", host |-> "", name |-> "anim", ext |-> ".gif"]
LocalMov == [scheme |-> "", host |-> "", name |-> "clip", ext |-> ".mov"]

SourcePaths ==
    {LocalJpeg, LocalTxt, RemotePng, RemoteBmp, LocalJpg, LocalGif, LocalMov, LocalMp4}
VideoPaths == {LocalMp4, RemoteBmp}
GalleryPaths == {LocalJpeg, RemotePng, RemoteBmp}

isValidURL(toTest) == toTest.scheme # "" /\ toTest.host # ""

\* mimeTypes with the entry of .jpg gone to image/png.
mimeTypesJpgAsPng ==
    [e \in {".png", ".mov", ".mp4", ".jpg", ".jpeg", ".gif"} |->
        CASE e = ".png" -> "image/png"
          [] e = ".mov" -> "video/quicktime"
          [] e = ".mp4" -> "video/mp4"
          [] e = ".jpg" -> "image/png"
          [] e = ".jpeg" -> "image/jpeg"
          [] e = ".gif" -> "image/gif"]

mimeTypes ==
    [e \in {".png", ".mov", ".mp4", ".jpg", ".jpeg", ".gif"} |->
        CASE e = ".png" -> "image/png"
          [] e = ".mov" -> "video/quicktime"
          [] e = ".mp4" -> "video/mp4"
          [] e = ".jpg" -> "image/jpeg"
          [] e = ".jpeg" -> "image/jpeg"
          [] e = ".gif" -> "image/gif"]

\* ------------------------------------------------------------- responses
\* What the remote side (or the transport) answers to one HTTP request.
\* transport: client.Do returned no error; readOk: the body could be read;
\* decodeOk: the body decodes into the value the caller passed.  The fields a
\* failed exchange never gets to are left at one value.
Responses ==
    { r \in [transport : BOOLEAN, readOk : BOOLEAN, status : Statuses,
             decodeOk : BOOLEAN] :
        /\ ~r.transport => (r.readOk /\ r.status = StatusOK /\ r.decodeOk)
        /\ ~r.readOk => (r.status = StatusOK /\ r.decodeOk) }

\* The other operation is not running.
NoOther == [pc |-> "idle", bearer |-> ""]

\* No response: no request was made.
NoResponse == [transport |-> FALSE, readOk |-> FALSE, status |-> 0, decodeOk |-> FALSE]

\* doRequest taking every 2xx status for a success.
doRequestAny2xx(resp, v) ==
    IF ~resp.transport THEN "transport"
    ELSE IF ~resp.readOk THEN "read"
    ELSE IF resp.status < 200 \/ resp.status > 299 THEN "status"
    ELSE IF v /\ ~resp.decodeOk THEN "unmarshal"
    ELSE ""

\* doRequest without the check of the status code.
doRequestNoStatusCheck(resp, v) ==
    IF ~resp.transport THEN "transport"
    ELSE IF ~resp.readOk THEN "read"
    ELSE IF v /\ ~resp.decodeOk THEN "unmarshal"
    ELSE ""

\* doRequest: the error it returns ("" for none); v tells whether the caller
\* asked for the body to be decoded.
doRequest(resp, v) ==
    IF ~resp.transport THEN "transport"
    ELSE IF ~resp.readOk THEN "read"
    ELSE IF resp.status # StatusOK /\ resp.status # StatusCreated THEN "status"
    ELSE IF v /\ ~resp.decodeOk THEN "unmarshal"
    ELSE ""

\* The remote side issues a different asset id with every lease: the one the
\* lease of unit i of the k-th call is answered with.
AssetIdOf(k, i) ==
    << <<"a1", "a2", "a3", "a4">>, <<"b1", "b2", "b3", "b4">>,
       <<"c1", "c2", "c3", "c4">>, <<"d1", "d2", "d3", "d4">> >>[k][i]

AssetIds == { AssetIdOf(k, i) : k \in 1..4, i \in 1..4 }
\* The address of the completion channel a lease issues for the asset of
\* unit i, when it issues one: each asset has its own.
WebsocketURLOf(i) == <<"wss://c", "wss://d", "wss://e", "wss://f">>[i]
WebsocketURLs == {""} \cup { WebsocketURLOf(i) : i \in 1..4 }
Locations == {"", "loc"}

\* args.fields of a lease response: the opaque name/value pairs the upload
\* has to carry; none, one or two of them.
FieldLists ==
    { <<>>,
      << [Name |-> "key", Value |-> "k"] >>,
      << [Name |-> "key", Value |-> "k"], [Name |-> "policy", Value |-> "p"] >> }

\* The fields the lease of unit i of the k-th call is answered with.
FieldsOf(k, i) ==
    << <<>>,
       << [Name |-> "key", Value |-> "k"] >>,
       << [Name |-> "key", Value |-> "k"], [Name |-> "policy", Value |-> "p"] >>
    >>[((k + i) % 3) + 1]

\* ------------------------------------------------------- multipart writer
\* multipart.NewWriter: no part written, not closed.
NewWriter == [parts |-> <<>>, closed |-> FALSE]

\* form.CreateFormField(field.Name) and formField.Write(field.Value).
CreateFormField(w, field) ==
    [w EXCEPT !.parts = Append(@, [name |-> field.Name, filename |-> "",
                                   content |-> field.Value])]

\* form.CreateFormFile(fieldname, fileName) and io.Copy(formFile, mediaFile).
CreateFormFile(w, fieldname, fileName, media) ==
    [w EXCEPT !.parts = Append(@, [name |-> fieldname, filename |-> fileName,
                                   content |-> media])]

\* form.Close().
CloseWriter(w) == [w EXCEPT !.closed = TRUE]

\* UploadAsset, lines 138-148: the loop over ar.Args.Fields.
RECURSIVE WriteFields(_, _)
WriteFields(w, fields) ==
    IF fields = <<>> THEN w
    ELSE WriteFields(CreateFormField(w, Head(fields)), Tail(fields))

\* filepath.Base(path): the name with its extension.
fileName(path) == <<path.name, path.ext>>

\* MultipartForm sent without the writer being closed.
MultipartFormNotClosed(ar, path, media) ==
    CreateFormFile(WriteFields(NewWriter, ar.Fields), "file", fileName(path), media)

\* UploadAsset, lines 135-168: the body of the upload request for the lease
\* ar, the source path and the opened media file.
MultipartForm(ar, path, media) ==
    CloseWriter(CreateFormFile(WriteFields(NewWriter, ar.Fields),
                               "file", fileName(path), media))

\* The token endpoint issues a new access token at every exchange: the one
\* the k-th call of the client can be answered with.
IssuedToken(k) == <<"tok", "tok2", "tok3", "tok4">>[k]

\* access_token of a token response: none, or an issued one.
Tokens == {""} \cup { IssuedToken(k) : k \in 1..MaxCalls }

GalleryIds == { <<>>, <<"t", "3", "_", "x">> }

\* Bodies the gallery endpoint answers a success status with, raw and as
\* decoded (json.data.id): no data at all, an empty id, an id.
GalleryBodies ==
    { [raw |-> "{json:{errors:[e]}}", id |-> <<>>],
      [raw |-> "{json:{data:{id:}}}", id |-> <<>>],
      [raw |-> "{json:{data:{id:t3_x}}}", id |-> <<"t", "3", "_", "x">>] }

\* No gallery response body received (yet).
NoBody == [raw |-> "", id |-> <<>>]

\* No request of the unit answered (yet).
NoAnswer == [phase |-> "", ok |-> FALSE]

\* How the remote side answered a request of a unit: ok when a response came
\* and its status is one of okStatuses, not ok when the request failed or the
\* status is another one.
Answer(phase, resp, okStatuses) ==
    [phase |-> phase, ok |-> resp.transport /\ resp.status \in okStatuses]

\* No earlier call remembered.
NoPrev ==
    [result |-> [kind |-> "none", val |-> <<>>, err |-> ""], submits |-> 0,
     ids |-> {}]

\* No token response received (yet).
NoResp == [transport |-> FALSE, status |-> 0, decodeOk |-> FALSE, token |-> ""]

NoAsset == [ID |-> "", Location |-> "", WebSocket |-> ""]

\* PostVideo runs two upload units, PostGallery one per path.
Units == 1..(IF MaxPaths > 2 THEN MaxPaths ELSE 2)

NoMsg == [value |-> <<>>, err |-> ""]
NoLease == [AssedID |-> "", WebsocketURL |-> "", Fields |-> <<>>]
NoErr == [unit |-> 0, err |-> ""]
NoResult == [kind |-> "none", val |-> <<>>, err |-> ""]
NoReturn == [done |-> FALSE, value |-> <<>>, err |-> ""]

\* What ReadMessage can hand to the listener: a decodable message, bytes that
\* do not decode, or a read error.
Frames ==
    [decodable : {TRUE}, type : {"success", "failed", "other"},
     redirect : Redirects, readErr : {FALSE}]
    \cup {[decodable |-> FALSE, type |-> "", redirect |-> <<>>, readErr |-> FALSE]}

ReadError == [decodable |-> FALSE, type |-> "", redirect |-> <<>>, readErr |-> TRUE]

VARIABLES
    pc,           \* where the calling goroutine is
    op,           \* "none", "image", "video" or "gallery"
    req,          \* the request: its paths and, for PostVideo, its kind
    accessToken,  \* reddit.accessToken
    cancelled,    \* ctx.Err() != nil
    cur,          \* PostImage/PostVideo: the unit whose UploadAsset is running
    upc,          \* per unit: where its UploadAsset call is
    ustaged,      \* per unit: didDownload
    ulease,       \* per unit: the decoded lease response (ar.Asset)
    uasset,       \* per unit: the asset UploadAsset returned
    uerr,         \* per unit: the error UploadAsset returned ("" for nil)
    tmpFiles,     \* staged temporary files that exist, named by their unit
    items,        \* PostGallery: the items slice (media_id per position)
    egErr,        \* PostGallery: the error the errgroup recorded
    payload,      \* the items of the gallery payload that was sent
    wsOpen,       \* the websocket connection is open on the client side
    dialed,       \* the address handed to the dialer ("" when none was)
    lpc,          \* where the listener goroutine is
    lmsg,         \* the msg the listener is sending or has sent last
    chClosed,     \* msgCh is closed
    wout,         \* the select's outcome in waitForPostSuccess
    result,       \* what the operation returned
    sent,         \* requests sent by the calling goroutine, per kind
    usent,        \* requests sent per unit, per kind
    frames,       \* what the ReadMessage calls returned, in order
    wres,         \* what waitForPostSuccess returned
    attempts,     \* sends on msgCh the listener has started
    delivered,    \* values the waiter has received from the listener
    calls,        \* operations called on this client so far
    tresp,        \* SetToken: the response of the token endpoint (resp, t)
    terr,         \* SetToken: the error it returned ("" for nil)
    bearer,       \* tokens the Authorization headers of this call carried
    posted,       \* SubmitPost: doRequest of the submission returned nil
    gbody,        \* SubmitGalleryPost: the body doRequest returned (respBody, pgr)
    gresp,        \* SubmitGalleryPost: the response its doRequest got
    other,        \* another operation running on the same client: where it is
                  \* and the token its lease request carried
    uresp,        \* per unit: how its last request was answered
    umime,        \* per unit: the mimetype of the lease request's form
    ubody,        \* per unit: the multipart body of the upload request sent
    dlErr,        \* per unit of the PostGallery of lines 301-349: the error its
                  \* downloadLink returned ("none" before, "" for nil)
    outerErr,     \* the PostGallery of lines 301-349: the variable err of line
                  \* 306, which its closures capture
    cause,        \* the error wrapped (%w) by the error the operation returned
    prev          \* the call before this one, when it is repeated (CallAgain)

vars == <<pc, op, req, accessToken, cancelled, cur, upc, ustaged, ulease, uasset,
          uerr, tmpFiles, items, egErr, payload, wsOpen, dialed, lpc, lmsg,
          chClosed,
          wout, result, sent, usent, frames, wres, attempts, delivered,
          calls, tresp, terr, bearer, posted, gbody, gresp, other, uresp, umime, ubody,
          dlErr, outerErr, cause, prev>>

callVars == <<calls, tresp, terr, bearer, posted, gbody, gresp, other, cause, prev>>
mainVars == <<pc, op, req, accessToken, cur, result, sent, payload, callVars>>
unitVars == <<upc, ustaged, ulease, uasset, uerr, tmpFiles, usent, uresp, umime,
              ubody, dlErr>>
galleryVars == <<items, egErr, outerErr>>
waitVars == <<wsOpen, dialed, lpc, lmsg, chClosed, wout, frames, wres, attempts,
              delivered>>

\* The state after New(...): no token, nothing running.
Init ==
    /\ pc = "idle"
    /\ op = "none"
    /\ req = [paths |-> <<>>, kind |-> ""]
    /\ accessToken = ""
    /\ cancelled = FALSE
    /\ cur = 0
    /\ upc = [i \in Units |-> "idle"]
    /\ ustaged = [i \in Units |-> FALSE]
    /\ ulease = [i \in Units |-> NoLease]
    /\ uasset = [i \in Units |-> NoAsset]
    /\ uerr = [i \in Units |-> ""]
    /\ tmpFiles = {}
    /\ items = <<>>
    /\ egErr = NoErr
    /\ payload = <<>>
    /\ wsOpen = FALSE
    /\ dialed = ""
    /\ lpc = "none"
    /\ lmsg = NoMsg
    /\ chClosed = FALSE
    /\ wout = NoMsg
    /\ result = NoResult
    /\ sent = [k \in {"token", "submit", "gallery", "dial"} |-> 0]
    /\ usent = [i \in Units |-> [k \in {"download", "lease", "upload"} |-> 0]]
    /\ frames = <<>>
    /\ wres = NoReturn
    /\ attempts = 0
    /\ delivered = 0
    /\ calls = 0
    /\ tresp = NoResp
    /\ terr = ""
    /\ bearer = {}
    /\ posted = FALSE
    /\ gbody = NoBody
    /\ gresp = NoResponse
    /\ other = NoOther
    /\ uresp = [i \in Units |-> NoAnswer]
    /\ umime = [i \in Units |-> ""]
    /\ ubody = [i \in Units |-> NewWriter]
    /\ dlErr = [i \in Units |-> "none"]
    /\ outerErr = NoErr
    /\ cause = ""
    /\ prev = NoPrev

Failure(e) == [kind |-> "err", val |-> <<>>, err |-> e]
Success(v) == [kind |-> "ok", val |-> v, err |-> ""]
Panic == [kind |-> "panic", val |-> <<>>, err |-> "index out of range"]

\* ------------------------------------------------------ request validation
\* PostImage: the path check, then on to SetToken.
PostImage ==
    /\ pc = "idle"
    /\ \E p \in SourcePaths \cup {NoPath} :
          /\ op' = "image"
          /\ req' = [paths |-> <<p>>, kind |-> "image"]
          /\ IF p = NoPath
             THEN /\ pc' = "done"
                  /\ result' = Failure("validation")
             ELSE /\ pc' = "setToken"
                  /\ result' = result
    /\ calls' = calls + 1
    /\ UNCHANGED <<accessToken, cancelled, cur, sent, payload, unitVars,
                   galleryVars, waitVars, tresp, terr, bearer, posted, gbody, gresp, other, cause, prev>>

\* PostVideo without the check of the kind.
PostVideoNoKindCheck ==
    /\ pc = "idle"
    /\ \E v \in VideoPaths \cup {NoPath}, t \in {LocalJpeg, RemotePng, NoPath},
          k \in {"video", "videogif", "image"} :
          /\ op' = "video"
          /\ req' = [paths |-> <<v, t>>, kind |-> k]
          /\ IF v = NoPath \/ t = NoPath
             THEN /\ pc' = "done"
                  /\ result' = Failure("validation")
             ELSE /\ pc' = "setToken"
                  /\ result' = result
    /\ calls' = calls + 1
    /\ UNCHANGED <<accessToken, cancelled, cur, sent, payload, unitVars,
                   galleryVars, waitVars, tresp, terr, bearer, posted, gbody, gresp, other, cause, prev>>

\* PostVideo: video path, thumbnail path and kind checks, then SetToken.
PostVideo ==
    /\ pc = "idle"
    /\ \E v \in VideoPaths \cup {NoPath}, t \in {LocalJpeg, RemotePng, NoPath},
          k \in {"video", "videogif", "image"} :
          /\ op' = "video"
          /\ req' = [paths |-> <<v, t>>, kind |-> k]
          /\ IF v = NoPath \/ t = NoPath \/ (k # "video" /\ k # "videogif")
             THEN /\ pc' = "done"
                  /\ result' = Failure("validation")
             ELSE /\ pc' = "setToken"
                  /\ result' = result
    /\ calls' = calls + 1
    /\ UNCHANGED <<accessToken, cancelled, cur, sent, payload, unitVars,
                   galleryVars, waitVars, tresp, terr, bearer, posted, gbody, gresp, other, cause, prev>>

\* The requests PostGallery is called with: up to MaxPaths paths.
GalleryRequests == UNION { [1..n -> GalleryPaths] : n \in 0..MaxPaths }

\* PostGallery: the check that there is a path, then SetToken.
PostGallery ==
    /\ pc = "idle"
    /\ \E ps \in GalleryRequests :
          /\ op' = "gallery"
          /\ req' = [paths |-> ps, kind |-> "gallery"]
          /\ IF Len(ps) = 0
             THEN /\ pc' = "done"
                  /\ result' = Failure("validation")
             ELSE /\ pc' = "setToken"
                  /\ result' = result
    /\ calls' = calls + 1
    /\ UNCHANGED <<accessToken, cancelled, cur, sent, payload, unitVars,
                   galleryVars, waitVars, tresp, terr, bearer, posted, gbody, gresp, other, cause, prev>>

\* ------------------------------------------------------------ SetToken
\* What the token endpoint answers: SetToken decodes the body whatever the
\* status is.
TokenResponses ==
    { r \in [transport : BOOLEAN, status : Statuses, decodeOk : BOOLEAN,
             token : Tokens] :
        /\ ~r.transport => (r.status = StatusOK /\ r.decodeOk /\ r.token = "")
        /\ ~r.decodeOk => r.token = "" }

\* Where UploadAsset starts for a path: the download for a remote URL, the
\* extension lookup otherwise.
UploadAssetEntry(path) == IF isValidURL(path) THEN "download" ELSE "mime"

\* The eg.Go loop of PostGallery: one unit per path, all started.
FanOut(paths) ==
    [i \in Units |-> IF i <= Len(paths) THEN UploadAssetEntry(paths[i]) ELSE "idle"]

\* SetTokenErr without the check of line 280.
SetTokenErrNoEmptyCheck(resp) ==
    IF ~resp.transport THEN "transport"
    ELSE IF ~resp.decodeOk THEN "decode"
    ELSE ""

\* SetToken's error ("" for nil).
SetTokenErr(resp) ==
    IF ~resp.transport THEN "transport"
    ELSE IF ~resp.decodeOk THEN "decode"
    ELSE IF resp.token = "" THEN "no token in response"
    ELSE ""

\* SetToken keeping a token the client already has.
SetTokenCached ==
    /\ pc = "setToken"
    /\ IF accessToken # ""
       THEN UNCHANGED <<sent, tresp, terr, accessToken>>
       ELSE \E resp \in TokenResponses :
              /\ cancelled => ~resp.transport
              /\ resp.token \in {"", IssuedToken(calls)}
              /\ sent' = [sent EXCEPT !["token"] = @ + 1]
              /\ tresp' = resp
              /\ terr' = SetTokenErr(resp)
              /\ accessToken' = IF SetTokenErr(resp) = "" THEN resp.token
                                ELSE accessToken
    /\ pc' = "tokenSet"
    /\ UNCHANGED <<op, req, cur, result, payload, cancelled, unitVars,
                   galleryVars, waitVars, calls, bearer, posted, gbody, gresp, other, cause, prev>>

\* SetToken called again while the upload units run.
SetTokenLate ==
    /\ pc \in {"setToken", "egWait"}
    /\ \E resp \in TokenResponses :
          /\ cancelled => ~resp.transport
          /\ resp.token \in {"", IssuedToken(calls)}
          /\ sent' = [sent EXCEPT !["token"] = @ + 1]
          /\ tresp' = resp
          /\ terr' = SetTokenErr(resp)
          /\ accessToken' = IF SetTokenErr(resp) = "" THEN resp.token
                            ELSE accessToken
    /\ pc' = IF pc = "setToken" THEN "tokenSet" ELSE pc
    /\ UNCHANGED <<op, req, cur, result, payload, cancelled, unitVars,
                   galleryVars, waitVars, calls, bearer, posted, gbody, gresp, other, cause, prev>>

\* SetToken: the exchange with the token endpoint; the token is stored when
\* there is one in the decoded body.
SetToken ==
    /\ pc = "setToken"
    /\ \E resp \in TokenResponses :
          /\ cancelled => ~resp.transport
          /\ resp.token \in {"", IssuedToken(calls)}
          /\ sent' = [sent EXCEPT !["token"] = @ + 1]
          /\ tresp' = resp
          /\ terr' = SetTokenErr(resp)
          /\ accessToken' = IF SetTokenErr(resp) = "" THEN resp.token
                            ELSE accessToken
    /\ pc' = "tokenSet"
    /\ UNCHANGED <<op, req, cur, result, payload, cancelled, unitVars,
                   galleryVars, waitVars, calls, bearer, posted, gbody, gresp, other, cause, prev>>

\* What each operation does with SetToken's return: return the error, start
\* the (first) upload, or make the items slice and start one upload unit per
\* path.
AfterSetToken ==
    /\ pc = "tokenSet"
    /\ tresp' = NoResp
    /\ terr' = ""
    /\ IF terr # ""
       THEN /\ pc' = "done"
            /\ result' = Failure("setting oauth token")
            /\ UNCHANGED <<cur, upc, items>>
       ELSE /\ result' = result
            /\ IF op = "gallery"
               THEN /\ items' = [i \in 1..Len(req.paths) |-> ""]
                    /\ upc' = FanOut(req.paths)
                    /\ pc' = "egWait"
                    /\ cur' = cur
               ELSE /\ cur' = 1
                    /\ upc' = [upc EXCEPT ![1] = UploadAssetEntry(req.paths[1])]
                    /\ pc' = "upload"
                    /\ items' = items
    /\ UNCHANGED <<op, req, accessToken, cancelled, sent, payload, ustaged,
                   ulease, uasset, uerr, tmpFiles, usent, uresp, umime, ubody, dlErr,
                   egErr, outerErr,
                   waitVars,
                   calls, bearer, posted, gbody, gresp, other, cause, prev>>

\* ---------------------------------------------------------- UploadAsset
\* StoreItem filling the slice from its other end.
StoreItemReversed(its, index, id) == [its EXCEPT ![Len(its) + 1 - index] = id]

\* items[index] = {"media_id": asset.ID, ...}
StoreItem(its, index, id) == [its EXCEPT ![index] = id]

\* RecordError keeping the error returned last.
RecordErrorLast(e, i, err) == [unit |-> i, err |-> err]

\* errgroup: the first error returned by a unit is the one kept.
RecordError(e, i, err) == IF e = NoErr THEN [unit |-> i, err |-> err] ELSE e

\* What the caller of UploadAsset does with its return in the same goroutine.
\* In PostGallery (lines 839-851) the closure of eg.Go returns the error to
\* the group or writes the unit's own slot of items, and the unit is finished;
\* in PostImage and PostVideo the calling goroutine goes on (AfterUploadAsset).
UnitReturn(i, a, e) ==
    /\ outerErr' = outerErr
    /\ uasset' = [uasset EXCEPT ![i] = a]
    /\ uerr' = [uerr EXCEPT ![i] = e]
    /\ IF op = "gallery"
       THEN /\ upc' = [upc EXCEPT ![i] = "joined"]
            /\ IF e # ""
               THEN /\ egErr' = RecordError(egErr, i, e)
                    /\ items' = items
               ELSE /\ items' = StoreItem(items, i, a.ID)
                    /\ egErr' = egErr
       ELSE /\ upc' = [upc EXCEPT ![i] = "done"]
            /\ UNCHANGED <<items, egErr>>

\* A return of UploadAsset after line 101: the deferred os.Remove runs if
\* didDownload.
UploadAssetReturn(i, a, e) ==
    /\ tmpFiles' = IF ustaged[i] THEN tmpFiles \ {i} ELSE tmpFiles
    /\ UnitReturn(i, a, e)

\* What the download of a remote source can meet.
DownloadResponses ==
    { r \in [transport : BOOLEAN, status : {StatusOK, 404}, createOk : BOOLEAN,
             copyOk : BOOLEAN] :
        /\ ~r.transport => (r.status = StatusOK /\ r.createOk /\ r.copyOk)
        /\ r.status # StatusOK => (r.createOk /\ r.copyOk)
        /\ ~r.createOk => r.copyOk }

\* downloadLinkErr without the check of the status code.
downloadLinkErrNoStatusCheck(resp) ==
    IF ~resp.transport THEN "transport"
    ELSE IF ~resp.createOk THEN "createtemp"
    ELSE IF ~resp.copyOk THEN "copy"
    ELSE ""

\* downloadLink's error ("" for nil).
downloadLinkErr(resp) ==
    IF ~resp.transport THEN "transport"
    ELSE IF resp.status # StatusOK THEN "status"
    ELSE IF ~resp.createOk THEN "createtemp"
    ELSE IF ~resp.copyOk THEN "copy"
    ELSE ""

\* downloadLink made the temporary file: the GET answered 200 and CreateTemp
\* succeeded (whether or not the copy into it then succeeds).
downloadLinkCreated(resp) ==
    resp.transport /\ resp.status = StatusOK /\ resp.createOk

\* UploadAsset, lines 91-97: the download of a remote source.
downloadLink(i) ==
    /\ upc[i] = "download"
    /\ \E resp \in DownloadResponses :
          /\ cancelled => ~resp.transport
          /\ usent' = [usent EXCEPT ![i]["download"] = @ + 1]
          /\ uresp' = [uresp EXCEPT ![i] = Answer("download", resp, {StatusOK})]
          /\ IF downloadLinkErr(resp) # ""
             THEN /\ UnitReturn(i, NoAsset, "download")
                  /\ tmpFiles' = IF downloadLinkCreated(resp)
                                 THEN tmpFiles \cup {i} ELSE tmpFiles
                  /\ ustaged' = ustaged
             ELSE /\ upc' = [upc EXCEPT ![i] = "mime"]
                  /\ ustaged' = [ustaged EXCEPT ![i] = TRUE]
                  /\ tmpFiles' = tmpFiles \cup {i}
                  /\ UNCHANGED <<uerr, uasset, galleryVars>>
    /\ UNCHANGED <<ulease, umime, ubody, dlErr, mainVars, cancelled, waitVars>>

\* UploadAsset, lines 103-111: the extension lookup.
LookupMime(i) ==
    /\ upc[i] = "mime"
    /\ IF req.paths[i].ext \in DOMAIN mimeTypes
       THEN /\ upc' = [upc EXCEPT ![i] = "lease"]
            /\ umime' = [umime EXCEPT ![i] = mimeTypes[req.paths[i].ext]]
            /\ UNCHANGED <<uasset, uerr, tmpFiles, galleryVars>>
       ELSE /\ UploadAssetReturn(i, NoAsset, "not supported")
            /\ umime' = umime
    /\ UNCHANGED <<ustaged, ulease, usent, uresp, ubody, dlErr, mainVars, cancelled,
                   waitVars>>

\* The body of a lease response, as decoded: whether args.action gives a URL
\* that parses, the asset id and the websocket URL.
LeaseBodies ==
    { b \in [actionOk : BOOLEAN, AssedID : AssetIds, WebsocketURL : WebsocketURLs,
             Fields : FieldLists] :
        ~b.actionOk => b.WebsocketURL = "" }

\* UploadAsset, lines 113-133: the lease request.
RequestLease(i) ==
    /\ upc[i] = "lease"
    /\ \E resp \in Responses :
          /\ cancelled => ~resp.transport
          /\ usent' = [usent EXCEPT ![i]["lease"] = @ + 1]
          /\ bearer' = bearer \cup {accessToken}
          /\ uresp' = [uresp EXCEPT ![i] =
                          Answer("lease", resp, {StatusOK, StatusCreated})]
          /\ IF doRequest(resp, TRUE) # ""
             THEN /\ UploadAssetReturn(i, NoAsset, "lease")
                  /\ ulease' = ulease
             ELSE \E body \in LeaseBodies :
                    /\ body.AssedID = AssetIdOf(calls, i)
                    /\ body.WebsocketURL \in {"", WebsocketURLOf(i)}
                    /\ body.Fields = FieldsOf(calls, i)
                    /\ IF ~body.actionOk
                       THEN /\ UploadAssetReturn(i, NoAsset, "parse")
                            /\ ulease' = ulease
                       ELSE /\ upc' = [upc EXCEPT ![i] = "upload"]
                            /\ ulease' = [ulease EXCEPT ![i] =
                                             [AssedID |-> body.AssedID,
                                              WebsocketURL |-> body.WebsocketURL,
                                              Fields |-> body.Fields]]
                            /\ UNCHANGED <<uasset, uerr, tmpFiles, galleryVars>>
    /\ UNCHANGED <<ustaged, umime, ubody, dlErr, pc, op, req, accessToken, cur, result, sent, payload,
                   calls, tresp, terr, posted, gbody, gresp, other, cause, prev, cancelled, waitVars>>

\* UploadedAsset without the check of the location.
UploadedAssetNoLocationCheck(ar, location) ==
    [asset |-> [ID |-> ar.AssedID, Location |-> location,
                WebSocket |-> ar.WebsocketURL],
     err |-> ""]

\* UploadAsset, lines 186-194: what it returns once the upload was answered
\* with a success status and a body that decodes, for the lease ar and the
\* body's Location ("" when the element is absent or empty).
UploadedAsset(ar, location) ==
    IF location = ""
    THEN [asset |-> NoAsset, err |-> "location"]
    ELSE [asset |-> [ID |-> ar.AssedID, Location |-> location,
                     WebSocket |-> ar.WebsocketURL],
          err |-> ""]

\* UploadAsset, lines 87-95 and 155: the file that is opened and copied into
\* the form, the staged temporary file of the unit or the local source.
assetPath(i) == IF ustaged[i] THEN "redmed*" ELSE req.paths[i].name

\* UploadAsset, lines 135-195: the multipart body (os.Open of the file may
\* fail, before anything is sent) and the upload request.
UploadFile(i) ==
    /\ upc[i] = "upload"
    /\ \/ /\ UploadAssetReturn(i, NoAsset, "open")
          /\ UNCHANGED <<usent, uresp, ubody>>
       \/ \E resp \in Responses :
            /\ cancelled => ~resp.transport
            /\ usent' = [usent EXCEPT ![i]["upload"] = @ + 1]
            /\ ubody' = [ubody EXCEPT ![i] =
                            MultipartForm(ulease[i], req.paths[i], assetPath(i))]
            /\ uresp' = [uresp EXCEPT ![i] =
                            Answer("upload", resp, {StatusOK, StatusCreated})]
            /\ IF doRequest(resp, TRUE) # ""
               THEN UploadAssetReturn(i, NoAsset, "upload")
               ELSE \E location \in Locations :
                      UploadAssetReturn(i, UploadedAsset(ulease[i], location).asset,
                                        UploadedAsset(ulease[i], location).err)
    /\ UNCHANGED <<ustaged, ulease, umime, dlErr, mainVars, cancelled, waitVars>>

\* ---------------------------------------------------------- PostGallery
\* AllJoined as soon as one unit is finished.
AllJoinedAny == \E i \in 1..Len(req.paths) : upc[i] = "joined"

\* eg.Wait() returned: every unit is finished.
AllJoined == \A i \in 1..Len(req.paths) : upc[i] = "joined"

\* WaitErr with the group's error dropped.
WaitErrIgnored(e) == ""

\* The error eg.Wait() returns ("" for nil).
WaitErr(e) == e.err

\* PostGallery, lines 854-857 (and on to the payload): the join.
GalleryWait ==
    /\ pc = "egWait"
    /\ AllJoined
    /\ IF WaitErr(egErr) # ""
       THEN /\ pc' = "done"
            /\ result' = Failure("uploading asset")
            /\ cause' = WaitErr(egErr)
       ELSE /\ pc' = "submitGallery"
            /\ UNCHANGED <<result, cause>>
    /\ UNCHANGED <<op, req, accessToken, cur, sent, payload, cancelled, unitVars,
                   galleryVars, waitVars, calls, tresp, terr, bearer, posted,
                   gbody, gresp, other, prev>>

\* GalleryResult with the identifier given the prefix SubmitPost gives.
GalleryResultPrefixed(body) ==
    IF body.id = <<>> THEN Failure(body.raw) ELSE Success(T3Prefix \o body.id)

\* GalleryResult without the check of the identifier.
GalleryResultNoIdCheck(body) == Success(body.id)

\* SubmitGalleryPost, lines 242-246, as PostGallery returns it: the error
\* made of the raw response body when json.data.id is empty, the id otherwise.
GalleryResult(body) ==
    IF body.id = <<>> THEN Failure(body.raw) ELSE Success(body.id)

\* SubmitGalleryPost with PostGallery's return.
SubmitGalleryPost ==
    /\ pc = "submitGallery"
    /\ \E resp \in Responses :
          /\ cancelled => ~resp.transport
          /\ sent' = [sent EXCEPT !["gallery"] = @ + 1]
          /\ bearer' = bearer \cup {accessToken}
          /\ payload' = items
          /\ gresp' = resp
          /\ pc' = "done"
          /\ IF doRequest(resp, TRUE) # ""
             THEN /\ result' = Failure("submitting post")
                  /\ gbody' = gbody
             ELSE \E body \in GalleryBodies :
                    /\ gbody' = body
                    /\ result' = GalleryResult(body)
    /\ UNCHANGED <<op, req, accessToken, cur, cancelled, unitVars, galleryVars,
                   waitVars, calls, tresp, terr, posted, other, cause, prev>>

\* ------------------------------------------------- PostImage and PostVideo
\* PostImage lines 712-715, PostVideo lines 775-783: UploadAsset returned to
\* the caller, which returns its error, starts the thumbnail upload, or
\* goes on to SubmitPost.
AfterUploadAsset ==
    /\ pc = "upload"
    /\ upc[cur] = "done"
    /\ IF uerr[cur] # ""
       THEN /\ pc' = "done"
            /\ result' = Failure("uploading asset")
            /\ cause' = uerr[cur]
            /\ UNCHANGED <<cur, upc>>
       ELSE IF op = "video" /\ cur = 1
       THEN /\ cur' = 2
            /\ upc' = [upc EXCEPT ![2] = UploadAssetEntry(req.paths[2])]
            /\ UNCHANGED <<pc, result, cause>>
       ELSE /\ pc' = "submit"
            /\ UNCHANGED <<cur, upc, result, cause>>
    /\ UNCHANGED <<op, req, accessToken, sent, payload, cancelled, ustaged, ulease,
                   uasset, uerr, tmpFiles, usent, uresp, umime, ubody, dlErr,
                   galleryVars,
                   waitVars, calls, tresp, terr, bearer, posted, gbody, gresp, other, prev>>

\* websocketURL taken from the asset uploaded last.
websocketURLOfLast == uasset[cur].WebSocket

\* The websocket URL PostImage and PostVideo hand to SubmitPost: the one of
\* the image, or of the video (not of the thumbnail).
websocketURL == uasset[1].WebSocket

\* FullnameOf without the underscore of the prefix.
FullnameOfNoUnderscore(redirect) ==
    LET split == Split(redirect)
    IN  IF Len(split) < 3 THEN Panic
        ELSE Success(<<"t", "3">> \o split[Len(split) - 2])

\* FullnameOf taking the component before the last one.
FullnameOfSecondLast(redirect) ==
    LET split == Split(redirect)
    IN  IF Len(split) < 3 THEN Panic
        ELSE Success(T3Prefix \o split[Len(split) - 1])

\* SubmitPost, lines 214-216: the identifier out of the redirect.  Indexing
\* the split redirect out of range panics.
FullnameOf(redirect) ==
    LET split == Split(redirect)
    IN  IF Len(split) < 3 THEN Panic
        ELSE Success(T3Prefix \o split[Len(split) - 2])

\* SubmitPostReturn without the check of the error.
SubmitPostReturnNoErrCheck(m) == FullnameOf(m.value)

\* SubmitPost after waitForPostSuccess returned (value, err).
SubmitPostReturn(m) ==
    IF m.err # "" THEN Failure("waiting for post success") ELSE FullnameOf(m.value)

\* SubmitPost, lines 198-207: the submission request.
SubmitPost ==
    /\ pc = "submit"
    /\ \E resp \in Responses :
          /\ cancelled => ~resp.transport
          /\ sent' = [sent EXCEPT !["submit"] = @ + 1]
          /\ bearer' = bearer \cup {accessToken}
          /\ posted' = (doRequest(resp, FALSE) = "")
          /\ IF doRequest(resp, FALSE) # ""
             THEN /\ pc' = "done"
                  /\ result' = Failure("executing submission request")
             ELSE /\ pc' = "wait"
                  /\ result' = result
    /\ UNCHANGED <<op, req, accessToken, cur, payload, cancelled, unitVars,
                   galleryVars, waitVars, calls, tresp, terr, gbody, gresp, other, cause, prev>>

\* ---------------------------------------------------- waitForPostSuccess
CtxErr == [value |-> <<>>, err |-> "context canceled"]

\* Classify without the check of the type.
ClassifyIgnoresType(f) ==
    IF f.readErr THEN [value |-> <<>>, err |-> "reading websocket message"]
    ELSE IF ~f.decodable THEN [value |-> <<>>, err |-> "unmarshalling websocket message"]
    ELSE IF f.redirect = <<>>
         THEN [value |-> <<>>, err |-> "waiting for media upload success"]
    ELSE [value |-> f.redirect, err |-> ""]

\* Classify without the check of the redirect.
ClassifyNoRedirectCheck(f) ==
    IF f.readErr THEN [value |-> <<>>, err |-> "reading websocket message"]
    ELSE IF ~f.decodable THEN [value |-> <<>>, err |-> "unmarshalling websocket message"]
    ELSE IF f.type # "success"
         THEN [value |-> <<>>, err |-> "waiting for media upload success"]
    ELSE [value |-> f.redirect, err |-> ""]

\* Classify taking bytes that do not decode for a message.
ClassifyNoDecodeCheck(f) ==
    IF f.readErr THEN [value |-> <<>>, err |-> "reading websocket message"]
    ELSE [value |-> f.redirect, err |-> ""]

\* The listener, lines 386-404: the msg it sends for what ReadMessage
\* returned.
Classify(f) ==
    IF f.readErr THEN [value |-> <<>>, err |-> "reading websocket message"]
    ELSE IF ~f.decodable THEN [value |-> <<>>, err |-> "unmarshalling websocket message"]
    ELSE IF f.type # "success" \/ f.redirect = <<>>
         THEN [value |-> <<>>, err |-> "waiting for media upload success"]
    ELSE [value |-> f.redirect, err |-> ""]

\* ClassifySibling without the check of the redirect.
ClassifySiblingNoRedirectCheck(f) ==
    IF f.readErr THEN [value |-> <<>>, err |-> "reading websocket message"]
    ELSE IF ~f.decodable THEN [value |-> <<>>, err |-> "unmarshalling websocket message"]
    ELSE IF f.type = "failed"
         THEN [value |-> <<>>, err |-> "waiting for media upload success"]
    ELSE [value |-> f.redirect, err |-> ""]

\* The listener of the sibling waitForPostSuccess (part_001 lines 374-399):
\* the msg it sends for what ReadMessage returned; it fails a decoded message
\* only when its type is failed or its redirect is empty.
ClassifySibling(f) ==
    IF f.readErr THEN [value |-> <<>>, err |-> "reading websocket message"]
    ELSE IF ~f.decodable THEN [value |-> <<>>, err |-> "unmarshalling websocket message"]
    ELSE IF f.type = "failed" \/ f.redirect = <<>>
         THEN [value |-> <<>>, err |-> "waiting for media upload success"]
    ELSE [value |-> f.redirect, err |-> ""]

\* Where the listener goes once its send on msgCh completed: it returns after
\* sending an error, and goes round the loop after sending a value.
AfterSend(m) == IF m.err # "" THEN "exit" ELSE "check"

\* SkipsWait without the check of the address.
SkipsWaitNever(url) == FALSE

\* waitForPostSuccess, line 361: the empty address.
SkipsWait(url) == url = ""

\* waitForPostSuccess returning m.
Returned(m) == [done |-> TRUE, value |-> m.value, err |-> m.err]

DialErr == [value |-> <<>>, err |-> "dialing websocket connection"]

\* Dial dialing again after a dial error.
DialRetry ==
    /\ pc = "wait"
    /\ IF SkipsWait(websocketURL)
       THEN /\ pc' = "done"
            /\ wres' = Returned(NoMsg)
            /\ result' = SubmitPostReturn(NoMsg)
            /\ UNCHANGED <<sent, wsOpen, dialed, lpc>>
       ELSE \E ok \in BOOLEAN :
              /\ sent' = [sent EXCEPT !["dial"] = @ + 1]
              /\ dialed' = websocketURL
              /\ IF ok
                 THEN /\ wsOpen' = TRUE
                      /\ lpc' = "check"
                      /\ pc' = "select"
                      /\ UNCHANGED <<result, wres>>
                 ELSE UNCHANGED <<pc, wres, result, wsOpen, lpc>>
    /\ UNCHANGED <<op, req, accessToken, callVars, cur, payload, cancelled, unitVars,
                   galleryVars, lmsg, chClosed, wout, frames, attempts, delivered>>

\* waitForPostSuccess, lines 361-369 and the go statement: the empty-URL
\* return, or the dial; on a dial error SubmitPost returns at once.
Dial ==
    /\ pc = "wait"
    /\ IF SkipsWait(websocketURL)
       THEN /\ pc' = "done"
            /\ wres' = Returned(NoMsg)
            /\ result' = SubmitPostReturn(NoMsg)
            /\ UNCHANGED <<sent, wsOpen, dialed, lpc>>
       ELSE \E ok \in BOOLEAN :
              /\ sent' = [sent EXCEPT !["dial"] = @ + 1]
              /\ dialed' = websocketURL
              /\ IF ok
                 THEN /\ wsOpen' = TRUE
                      /\ lpc' = "check"
                      /\ pc' = "select"
                      /\ UNCHANGED <<result, wres>>
                 ELSE /\ pc' = "done"
                      /\ wres' = Returned(DialErr)
                      /\ result' = SubmitPostReturn(DialErr)
                      /\ UNCHANGED <<wsOpen, lpc>>
    /\ UNCHANGED <<op, req, accessToken, callVars, cur, payload, cancelled, unitVars,
                   galleryVars, lmsg, chClosed, wout, frames, attempts, delivered>>

\* The select of lines 408-416 when the caller reaches it: it takes one of
\* the cases that are ready (the listener blocked in a send, the closed
\* channel, the cancelled context), and blocks when none is.
Select ==
    /\ pc = "select"
    /\ \/ /\ cancelled
          /\ wout' = CtxErr
          /\ pc' = "wret"
          /\ UNCHANGED <<lpc, chClosed, delivered>>
       \/ /\ lpc = "send"
          /\ wout' = lmsg
          /\ pc' = "wret"
          /\ delivered' = delivered + 1
          /\ lpc' = AfterSend(lmsg)
          /\ chClosed' = (AfterSend(lmsg) = "exit")
       \/ /\ chClosed
          /\ wout' = NoMsg
          /\ pc' = "wret"
          /\ UNCHANGED <<lpc, chClosed, delivered>>
       \/ /\ ~cancelled /\ lpc # "send" /\ ~chClosed
          /\ pc' = "parked"
          /\ UNCHANGED <<wout, lpc, chClosed, delivered>>
    /\ UNCHANGED <<op, req, accessToken, callVars, cur, result, sent, payload, cancelled,
                   unitVars, galleryVars, wsOpen, dialed, lmsg, frames, wres, attempts>>

\* WaitReturn without the deferred ws.Close().
WaitReturnNoClose ==
    /\ pc = "wret"
    /\ pc' = "done"
    /\ wres' = Returned(wout)
    /\ result' = SubmitPostReturn(wout)
    /\ UNCHANGED <<op, req, accessToken, callVars, cur, sent, payload, cancelled, unitVars,
                   galleryVars, wsOpen, dialed, lpc, lmsg, chClosed, wout, frames,
                   attempts, delivered>>

\* waitForPostSuccess returns what the select took; the deferred ws.Close()
\* runs; SubmitPost and the operation return.
WaitReturn ==
    /\ pc = "wret"
    /\ wsOpen' = FALSE
    /\ pc' = "done"
    /\ wres' = Returned(wout)
    /\ result' = SubmitPostReturn(wout)
    /\ UNCHANGED <<op, req, accessToken, callVars, cur, sent, payload, cancelled, unitVars,
                   galleryVars, dialed, lpc, lmsg, chClosed, wout, frames,
                   attempts, delivered>>

\* The listener, lines 381-383: the check of ctx.Err() at the top of the loop;
\* on return the deferred close(msgCh) wakes a caller blocked in the select.
ListenerCheck ==
    /\ lpc = "check"
    /\ IF cancelled
       THEN /\ lpc' = "exit"
            /\ chClosed' = TRUE
            /\ IF pc = "parked"
               THEN pc' = "wret" /\ wout' = NoMsg
               ELSE UNCHANGED <<pc, wout>>
       ELSE /\ lpc' = "read"
            /\ UNCHANGED <<chClosed, pc, wout>>
    /\ UNCHANGED <<op, req, accessToken, callVars, cur, result, sent, payload, cancelled,
                   unitVars, galleryVars, wsOpen, dialed, lmsg, frames, wres, attempts,
                   delivered>>

\* The listener, lines 386-404: ReadMessage returns (a message only while the
\* connection is open) and the listener starts the send of the msg for it.
ListenerRead ==
    /\ lpc = "read"
    /\ \E f \in Frames \cup {ReadError} :
          /\ ~wsOpen => f.readErr
          /\ frames' = Append(frames, f)
          /\ lmsg' = Classify(f)
    /\ lpc' = "send"
    /\ attempts' = attempts + 1
    /\ UNCHANGED <<mainVars, cancelled, unitVars, galleryVars, wsOpen, dialed, chClosed,
                   wout, wres, delivered>>

\* ListenerSend losing the msg: the send completes, the caller stays blocked.
ListenerSendLost ==
    /\ lpc = "send"
    /\ pc = "parked"
    /\ lpc' = AfterSend(lmsg)
    /\ chClosed' = (AfterSend(lmsg) = "exit")
    /\ UNCHANGED <<pc, wout, delivered, op, req, accessToken, callVars, cur, result, sent,
                   payload, cancelled, unitVars, galleryVars, wsOpen, dialed, lmsg,
                   frames, wres, attempts>>

\* The listener's send on the unbuffered msgCh completes with a caller that
\* is blocked in the select.
ListenerSend ==
    /\ lpc = "send"
    /\ pc = "parked"
    /\ wout' = lmsg
    /\ pc' = "wret"
    /\ delivered' = delivered + 1
    /\ lpc' = AfterSend(lmsg)
    /\ chClosed' = (AfterSend(lmsg) = "exit")
    /\ UNCHANGED <<op, req, accessToken, callVars, cur, result, sent, payload, cancelled,
                   unitVars, galleryVars, wsOpen, dialed, lmsg, frames, wres, attempts>>

\* Cancel that leaves a blocked caller to the listener.
CancelNoWake ==
    /\ pc # "idle"
    /\ ~cancelled
    /\ cancelled' = TRUE
    /\ UNCHANGED <<pc, wout, op, req, accessToken, callVars, cur, result, sent, payload,
                   unitVars, galleryVars, wsOpen, dialed, lpc, lmsg, chClosed, frames,
                   wres, attempts, delivered>>

\* ------------------------------------------------------------ the context
\* The caller's context is cancelled or its deadline passes; a caller blocked
\* in the select of waitForPostSuccess is woken with the ctx.Done() case.
Cancel ==
    /\ pc # "idle"
    /\ ~cancelled
    /\ cancelled' = TRUE
    /\ IF pc = "parked"
       THEN pc' = "wret" /\ wout' = CtxErr
       ELSE UNCHANGED <<pc, wout>>
    /\ UNCHANGED <<op, req, accessToken, callVars, cur, result, sent, payload, unitVars,
                   galleryVars, wsOpen, dialed, lpc, lmsg, chClosed, frames, wres,
                   attempts, delivered>>

Next ==
    \/ PostImage
    \/ PostVideo
    \/ PostGallery
    \/ SetToken
    \/ AfterSetToken
    \/ \E i \in Units : downloadLink(i)
    \/ \E i \in Units : LookupMime(i)
    \/ \E i \in Units : RequestLease(i)
    \/ \E i \in Units : UploadFile(i)
    \/ GalleryWait
    \/ SubmitGalleryPost
    \/ AfterUploadAsset
    \/ SubmitPost
    \/ Dial
    \/ Select
    \/ WaitReturn
    \/ ListenerCheck
    \/ ListenerRead
    \/ ListenerSend
    \/ Cancel

Spec == Init /\ [][Next]_vars

\* ------------------------------------- the PostGallery of lines 301-349
\* src/redmed.go holds a second PostGallery (lines 301-396), whose closures
\* download and upload by themselves and assign the result of downloadLink to
\* the err of the enclosing function (line 321: "=", not ":=").

\* Where a closure starts: the download of a remote URL, uploadMedia otherwise.
SiblingEntry(path) == IF isValidURL(path) THEN "download" ELSE "uploadMedia"

\* Lines 307-313: setToken returned (its error is assigned to err); the items
\* slice is made and one closure is started per path.
SiblingAfterSetToken ==
    /\ pc = "tokenSet"
    /\ op = "gallery"
    /\ tresp' = NoResp
    /\ terr' = ""
    /\ IF terr # ""
       THEN /\ pc' = "done"
            /\ result' = Failure("setting oauth token")
            /\ outerErr' = [unit |-> 0, err |-> terr]
            /\ UNCHANGED <<upc, items>>
       ELSE /\ result' = result
            /\ outerErr' = NoErr
            /\ items' = [i \in 1..Len(req.paths) |-> ""]
            /\ upc' = [i \in Units |-> IF i <= Len(req.paths)
                                       THEN SiblingEntry(req.paths[i])
                                       ELSE "idle"]
            /\ pc' = "egWait"
    /\ UNCHANGED <<op, req, accessToken, cancelled, cur, sent, payload, ustaged,
                   ulease, uasset, uerr, tmpFiles, usent, uresp, umime, ubody, dlErr,
                   egErr, waitVars, calls, bearer, posted, gbody, gresp, other, cause, prev>>

\* Line 321: mediaPath, err = c.downloadLink(ctx, path).  The error (or nil)
\* is written to the err all closures share.
SiblingDownload(i) ==
    /\ upc[i] = "download"
    /\ \E resp \in DownloadResponses :
          /\ cancelled => ~resp.transport
          /\ usent' = [usent EXCEPT ![i]["download"] = @ + 1]
          /\ dlErr' = [dlErr EXCEPT ![i] =
                          IF downloadLinkErr(resp) # "" THEN "download" ELSE ""]
          /\ outerErr' = IF downloadLinkErr(resp) # ""
                         THEN [unit |-> i, err |-> "download"] ELSE NoErr
          /\ tmpFiles' = IF downloadLinkCreated(resp)
                         THEN tmpFiles \cup {i} ELSE tmpFiles
    /\ upc' = [upc EXCEPT ![i] = "checkErr"]
    /\ UNCHANGED <<ustaged, ulease, uasset, uerr, uresp, umime, ubody, items, egErr,
                   mainVars, cancelled, waitVars>>

\* Lines 322-329: the closure reads the shared err.  When it is not nil the
\* closure returns the download error, before any os.Remove is deferred;
\* otherwise didDownload is set and the removal of mediaPath deferred.
SiblingCheckErr(i) ==
    /\ upc[i] = "checkErr"
    /\ IF outerErr # NoErr
       THEN /\ UnitReturn(i, NoAsset, "downloading")
            /\ UNCHANGED <<ustaged, tmpFiles>>
       ELSE /\ ustaged' = [ustaged EXCEPT ![i] = TRUE]
            /\ upc' = [upc EXCEPT ![i] = "uploadMedia"]
            /\ UNCHANGED <<uasset, uerr, tmpFiles, galleryVars>>
    /\ UNCHANGED <<ulease, usent, uresp, umime, ubody, dlErr, mainVars, cancelled,
                   waitVars>>

\* mediaPath of a closure at line 331: the path, the staged file (which has
\* the extension of the link), or "" when its downloadLink returned an error.
mediaPathExt(i) == IF dlErr[i] = "download" THEN "" ELSE req.paths[i].ext

\* The closure returns: the deferred os.Remove(mediaPath) removes the staged
\* file when didDownload and mediaPath names it.
SiblingReturn(i, a, e) ==
    /\ tmpFiles' = IF ustaged[i] /\ dlErr[i] = "" THEN tmpFiles \ {i} ELSE tmpFiles
    /\ UnitReturn(i, a, e)

\* Lines 331-342 with uploadMedia (lines 461-566): the extension lookup, the
\* lease request, the multipart body and the upload request; the closure
\* returns the error, or stores the asset id in its slot of items.
SiblingUploadMedia(i) ==
    /\ upc[i] = "uploadMedia"
    /\ IF mediaPathExt(i) \notin DOMAIN mimeTypes
       THEN /\ SiblingReturn(i, NoAsset, "uploading")
            /\ UNCHANGED <<usent, bearer, ulease>>
       ELSE \E lease \in Responses :
              /\ cancelled => ~lease.transport
              /\ bearer' = bearer \cup {accessToken}
              /\ IF doRequest(lease, TRUE) # ""
                 THEN /\ usent' = [usent EXCEPT ![i]["lease"] = @ + 1]
                      /\ SiblingReturn(i, NoAsset, "uploading")
                      /\ ulease' = ulease
                 ELSE \E actionOk \in BOOLEAN, openOk \in BOOLEAN,
                         upload \in Responses, location \in Locations :
                        /\ ~actionOk => (openOk /\ upload.transport)
                        /\ ~openOk => upload.transport
                        /\ (~actionOk \/ ~openOk \/ doRequest(upload, FALSE) # "")
                           => location = ""
                        /\ cancelled => (~actionOk \/ ~openOk \/ ~upload.transport)
                        /\ ulease' = [ulease EXCEPT ![i] =
                                         [AssedID |-> AssetIdOf(calls, i),
                                          WebsocketURL |-> "",
                                          Fields |-> FieldsOf(calls, i)]]
                        /\ IF ~actionOk \/ ~openOk
                           THEN /\ usent' = [usent EXCEPT ![i]["lease"] = @ + 1]
                                /\ SiblingReturn(i, NoAsset, "uploading")
                           ELSE /\ usent' = [usent EXCEPT ![i]["lease"] = @ + 1,
                                                          ![i]["upload"] = @ + 1]
                                /\ IF doRequest(upload, FALSE) # ""
                                   THEN SiblingReturn(i, NoAsset, "uploading")
                                   ELSE SiblingReturn(i,
                                           [ID |-> AssetIdOf(calls, i),
                                            Location |-> location,
                                            WebSocket |-> ""], "")
    /\ UNCHANGED <<ustaged, uresp, umime, ubody, dlErr, pc, op, req, accessToken, cur,
                   result, sent, payload, calls, tresp, terr, posted, gbody, gresp, other,
                   cause, prev, cancelled, waitVars>>

\* Lines 345-348: eg.Wait() and the return of its error as it is.
SiblingGalleryWait ==
    /\ pc = "egWait"
    /\ AllJoined
    /\ outerErr' = egErr
    /\ IF WaitErr(egErr) # ""
       THEN /\ pc' = "done"
            /\ result' = Failure(WaitErr(egErr))
       ELSE /\ pc' = "submitGallery"
            /\ result' = result
    /\ UNCHANGED <<op, req, accessToken, cur, sent, payload, cancelled, unitVars,
                   items, egErr, waitVars, callVars>>

NextSibling ==
    \/ PostGallery
    \/ SetToken
    \/ SiblingAfterSetToken
    \/ \E i \in Units : SiblingDownload(i)
    \/ \E i \in Units : SiblingCheckErr(i)
    \/ \E i \in Units : SiblingUploadMedia(i)
    \/ SiblingGalleryWait
    \/ SubmitGalleryPost
    \/ Cancel

SpecSibling == Init /\ [][NextSibling]_vars

\* ------------------------------------- two operations on the same client
\* The client holds one reddit value whose accessToken field is written by
\* SetToken and read by every lease and submission, with no lock around
\* either. A second operation called on the same client while the first one
\* runs is followed through what it does with that field: its token exchange
\* and the lease request that comes after it.

\* The token the token endpoint issues to the other operation.
OtherToken == IssuedToken(MaxCalls)

\* The other operation is called with a request that passes validation, while
\* this one runs. It is followed alongside PostImage and PostVideo, whose
\* leases and submission read the field as PostGallery's do.
OtherCall ==
    /\ other.pc = "idle"
    /\ pc \notin {"idle", "done"}
    /\ op \in {"image", "video"}
    /\ other' = [other EXCEPT !.pc = "setToken"]
    /\ UNCHANGED <<pc, op, req, accessToken, cancelled, cur, result, sent, payload,
                   unitVars, galleryVars, waitVars, calls, tresp, terr, bearer,
                   posted, gbody, gresp, cause, prev>>

\* The other operation's SetToken: the token of its exchange is stored in the
\* field both operations read; without a token it returns.
OtherSetToken ==
    /\ other.pc = "setToken"
    /\ \E token \in {"", OtherToken} :
          /\ accessToken' = IF token = "" THEN accessToken ELSE token
          /\ other' = [other EXCEPT !.pc = IF token = "" THEN "done" ELSE "lease"]
    /\ UNCHANGED <<pc, op, req, cancelled, cur, result, sent, payload,
                   unitVars, galleryVars, waitVars, calls, tresp, terr, bearer,
                   posted, gbody, gresp, cause, prev>>

\* The other operation's lease request: its Authorization header is made of
\* the field as it is now.
OtherLease ==
    /\ other.pc = "lease"
    /\ other' = [pc |-> "done", bearer |-> accessToken]
    /\ UNCHANGED <<pc, op, req, accessToken, cancelled, cur, result, sent, payload,
                   unitVars, galleryVars, waitVars, calls, tresp, terr, bearer,
                   posted, gbody, gresp, cause, prev>>

NextShared == Next \/ OtherCall \/ OtherSetToken \/ OtherLease

SpecShared == Init /\ [][NextShared]_vars

\* ------------------------------------------------------------- scheduling
\* ws.ReadMessage() on a connection this side has closed returns an error
\* without waiting for the remote side.
ListenerReadClosed == ~wsOpen /\ ListenerRead

\* The Go scheduler runs every goroutine that can take a step: the caller in
\* its select and its return, the listener in its check, in a send that has
\* a receiver, and in a read that returns at once.  A read of an open
\* connection returns only when the remote side sends or closes, and the
\* context is cancelled only if its owner does so: neither is assumed.
Fairness ==
    /\ WF_vars(Select)
    /\ WF_vars(WaitReturn)
    /\ WF_vars(ListenerCheck)
    /\ WF_vars(ListenerSend)
    /\ WF_vars(ListenerReadClosed)

SpecFair == Init /\ [][Next]_vars /\ Fairness

\* ------------------------------------------- one client, call after call
\* What a call starts with, whatever the calls before it did: its own context,
\* its own local variables and goroutines, nothing sent yet.  The client
\* structs hold nothing of a call but reddit.accessToken.
FreshCall ==
    /\ cancelled' = FALSE
    /\ cur' = 0
    /\ upc' = [i \in Units |-> "idle"]
    /\ ustaged' = [i \in Units |-> FALSE]
    /\ ulease' = [i \in Units |-> NoLease]
    /\ uasset' = [i \in Units |-> NoAsset]
    /\ uerr' = [i \in Units |-> ""]
    /\ tmpFiles' = {}
    /\ items' = <<>>
    /\ egErr' = NoErr
    /\ payload' = <<>>
    /\ wsOpen' = FALSE
    /\ dialed' = ""
    /\ lpc' = "none"
    /\ lmsg' = NoMsg
    /\ chClosed' = FALSE
    /\ wout' = NoMsg
    /\ sent' = [k \in {"token", "submit", "gallery", "dial"} |-> 0]
    /\ usent' = [i \in Units |-> [k \in {"download", "lease", "upload"} |-> 0]]
    /\ frames' = <<>>
    /\ wres' = NoReturn
    /\ attempts' = 0
    /\ delivered' = 0
    /\ bearer' = {}
    /\ posted' = FALSE
    /\ gbody' = NoBody
    /\ gresp' = NoResponse
    /\ other' = NoOther
    /\ uresp' = [i \in Units |-> NoAnswer]
    /\ umime' = [i \in Units |-> ""]
    /\ ubody' = [i \in Units |-> NewWriter]
    /\ dlErr' = [i \in Units |-> "none"]
    /\ outerErr' = NoErr
    /\ cause' = ""

\* The operation has returned and the program calls the client again, with a
\* new context.  The client keeps its accessToken; everything else describes
\* the call that starts (temporary files and a listener left behind by the
\* call that returned are no longer followed).
NextCall ==
    /\ pc = "done"
    /\ result.kind # "panic"
    /\ calls < MaxCalls
    /\ pc' = "idle"
    /\ op' = "none"
    /\ req' = [paths |-> <<>>, kind |-> ""]
    /\ result' = NoResult
    /\ FreshCall
    /\ UNCHANGED <<accessToken, calls, tresp, terr, prev>>

NextCalls == Next \/ NextCall

SpecCalls == Init /\ [][NextCalls]_vars

\* ------------------------------------------- the same request, once more
\* What is remembered of a call that returned: its result, the submission
\* requests it sent and the asset ids its leases were answered with.
Remembered ==
    [result |-> result,
     submits |-> sent["submit"] + sent["gallery"],
     ids |-> { ulease[i].AssedID : i \in 1..Len(req.paths) }]

\* CallAgain answering from the call before, without any request.
CallAgainCached ==
    /\ pc = "done"
    /\ result.kind = "ok"
    /\ calls < MaxCalls
    /\ prev' = Remembered
    /\ calls' = calls + 1
    /\ pc' = "done"
    /\ FreshCall
    /\ UNCHANGED <<op, req, result, accessToken, tresp, terr>>

\* The operation returned an identifier and the program calls the same
\* operation again with the same request contents and a new context: the
\* request passes validation as before and the call goes on to SetToken.
CallAgain ==
    /\ pc = "done"
    /\ result.kind = "ok"
    /\ calls < MaxCalls
    /\ prev' = Remembered
    /\ calls' = calls + 1
    /\ pc' = "setToken"
    /\ result' = NoResult
    /\ FreshCall
    /\ UNCHANGED <<op, req, accessToken, tresp, terr>>

NextTwice == Next \/ CallAgain

SpecTwice == Init /\ [][NextTwice]_vars

TypeOK ==
    /\ pc \in {"idle", "setToken", "tokenSet", "upload", "egWait", "submitGallery", "submit",
               "wait", "select", "parked", "wret", "done"}
    /\ op \in {"none", "image", "video", "gallery"}
    /\ lpc \in {"none", "check", "read", "send", "exit"}
    /\ \A i \in Units : upc[i] \in {"idle", "download", "mime", "lease", "upload",
                                    "done", "joined", "checkErr", "uploadMedia"}
    /\ \A i \in Units : dlErr[i] \in {"none", "", "download"}
    /\ Len(frames) <= 2
    /\ tmpFiles \subseteq Units
    /\ result.kind \in {"none", "ok", "err", "panic"}
    /\ calls \in 0..MaxCalls
    /\ bearer \subseteq Tokens
    /\ accessToken \in Tokens
    /\ posted \in BOOLEAN
    /\ gbody \in GalleryBodies \cup {NoBody}
    /\ gresp \in Responses \cup {NoResponse}
    /\ other.pc \in {"idle", "setToken", "lease", "done"}
    /\ other.bearer \in Tokens
    /\ tresp \in TokenResponses \cup {NoResp}
    /\ dialed \in WebsocketURLs
    /\ \A i \in Units : uresp[i].phase \in {"", "download", "lease", "upload"}
    /\ \A i \in Units : umime[i] \in {"", "image/png", "image/jpeg", "image/gif",
                                      "video/mp4", "video/quicktime"}
    /\ cause \in {"", "download", "not supported", "lease", "parse", "open",
                  "upload", "location"}
    /\ prev.submits \in 0..1

\* ================================================================ claims
\* The units an operation uploads with.
UsedUnits == 1..Len(req.paths)

\* A decodable message of type success carrying redirect r.
SuccessFrame(r) ==
    [decodable |-> TRUE, type |-> "success", redirect |-> r, readErr |-> FALSE]

\* Token exchange, every lease and upload, the submission POST and the dial
\* all succeeded.
AllPhasesSucceeded ==
    /\ accessToken # ""
    /\ \A i \in UsedUnits : upc[i] = "done" /\ uerr[i] = ""
    /\ sent["submit"] = 1
    /\ sent["dial"] = 1

\* C1: when every phase succeeded and the completion channel then emits a
\* success message whose redirect is .../r/<sub>/comments/<id>/<title>/,
\* PostImage and PostVideo return t3_<id> and no error, for local and for
\* remote (downloaded) sources alike.
C1_HappyPathReturnsFullname ==
    \A p \in Prefixes, s \in Subs, i \in Ids, t \in Titles :
        ( /\ op \in {"image", "video"}
          /\ pc = "done"
          /\ ~cancelled
          /\ AllPhasesSucceeded
          /\ Len(frames) >= 1
          /\ frames[1] = SuccessFrame(MkRedirect(p, s, i, t)) )
        => result = Success(T3Prefix \o i)

\* PostVideo of a local video with a downloaded thumbnail returned t3_a1.
C1_Witness ==
    /\ op = "video"
    /\ pc = "done"
    /\ req.paths = <<LocalMp4, RemotePng>>
    /\ usent[2]["download"] = 1
    /\ ~cancelled
    /\ AllPhasesSucceeded
    /\ result = Success(T3Prefix \o <<"a", "1">>)

\* C2: in the gallery payload that is submitted, item i carries the asset id
\* the lease of Paths[i] returned, whatever the order in which the upload
\* units ran and finished.
C2_GalleryOrderPreserved ==
    (op = "gallery" /\ sent["gallery"] > 0)
    => /\ Len(payload) = Len(req.paths)
       /\ \A i \in UsedUnits : payload[i] = ulease[i].AssedID

\* A gallery of two paths was submitted whose second unit was leased and
\* finished before the first one was leased.
C2_Witness ==
    /\ op = "gallery"
    /\ sent["gallery"] = 1
    /\ Len(req.paths) = 2
    /\ ulease[1].AssedID = "a1"
    /\ ulease[2].AssedID = "a2"
    /\ payload = <<"a1", "a2">>

\* C3: if an upload unit of PostGallery failed, PostGallery returns an error
\* and the gallery submission is never sent; the submission is sent only when
\* every unit has succeeded.
C3_GalleryAllOrNothing ==
    op = "gallery"
    => /\ sent["gallery"] > 0
          => \A i \in UsedUnits : upc[i] = "joined" /\ uerr[i] = ""
       /\ (\E i \in UsedUnits : uerr[i] # "")
          => /\ sent["gallery"] = 0
             /\ pc = "done" => result.kind = "err"

\* PostGallery returned an error after one unit succeeded and the other
\* failed, with no submission sent.
C3_Witness ==
    /\ op = "gallery"
    /\ pc = "done"
    /\ Len(req.paths) = 2
    /\ upc[1] = "joined" /\ uerr[1] = ""
    /\ upc[2] = "joined" /\ uerr[2] = "lease"
    /\ result.kind = "err"
    /\ sent["gallery"] = 0

\* C4: PostImage and PostVideo return an identifier only after the listener
\* received a success message with a non-empty redirect and the waiter got it;
\* after the submission POST succeeded and before that, nothing is returned.
C4_IdentifierOnlyAfterSuccessMessage ==
    /\ (op \in {"image", "video"} /\ result.kind = "ok")
       => /\ sent["dial"] = 1
          /\ delivered = 1
          /\ Len(frames) >= 1
          /\ frames[1].decodable
          /\ frames[1].type = "success"
          /\ frames[1].redirect # <<>>
          /\ wres.value = frames[1].redirect
    /\ pc \in {"wait", "select", "parked", "wret"} => result = NoResult

\* PostImage returned an identifier, after the one delivery of a message.
C4_Witness ==
    /\ op = "image"
    /\ result.kind = "ok"
    /\ sent["submit"] = 1
    /\ delivered = 1
    /\ frames[1].type = "success"

\* C5: when the context is cancelled while waitForPostSuccess is blocked in
\* its select and nothing was delivered, the select takes the ctx.Done() case
\* at once, whatever the listener is doing; waitForPostSuccess then returns
\* the context's error, the connection is closed, and the listener took no
\* part in it.
C5_CancelWakesWaiter ==
    [][ /\ (pc = "parked" /\ ~cancelled /\ cancelled')
           => (pc' = "wret" /\ wout' = CtxErr /\ lpc' = lpc)
        /\ (pc = "wret" /\ wout = CtxErr /\ pc' # "wret")
           => (wres' = Returned(CtxErr) /\ ~wsOpen' /\ lpc' = lpc) ]_vars

\* waitForPostSuccess returned the context's error and closed the connection
\* while the listener is still blocked in its first ReadMessage.
C5_Witness ==
    /\ pc = "done"
    /\ cancelled
    /\ wres = Returned(CtxErr)
    /\ ~wsOpen
    /\ lpc = "read"
    /\ frames = <<>>
    /\ result.kind = "err"

\* C6: once the listener has delivered a message to the waiter, it does not
\* read the connection again and does not start another send.
C6_OneTerminalDelivery ==
    [][ delivered >= 1 => (frames' = frames /\ attempts' = attempts) ]_vars

\* C7: a redirect .../r/<sub>/comments/<id>/<title>/ returned by
\* waitForPostSuccess makes SubmitPost return t3_<id>.
C7_RedirectYieldsFullname ==
    \A p \in Prefixes, s \in Subs, i \in Ids, t \in Titles :
        ( /\ op \in {"image", "video"}
          /\ wres.done
          /\ wres.err = ""
          /\ wres.value = MkRedirect(p, s, i, t) )
        => result = Success(T3Prefix \o i)

\* The redirect h://x/r/s/comments/b// (empty title) gave t3_b.
C7_Witness ==
    /\ wres.done
    /\ wres.err = ""
    /\ wres.value = MkRedirect(<<"h", ":", "/", "/", "x">>, <<"s">>, <<"b">>, <<>>)
    /\ result = Success(<<"t", "3", "_", "b">>)

\* The listener has just classified the decodable message f.
JustClassified(f) ==
    /\ lpc = "send"
    /\ Len(frames) >= 1
    /\ f = frames[Len(frames)]
    /\ f.decodable

\* The waiter returned what the listener made of the decodable message f.
WaiterGot(f) ==
    /\ wres.done
    /\ delivered = 1
    /\ f = frames[1]
    /\ f.decodable

FailureErr == "waiting for media upload success"

\* C8 as stated: type failed or an empty redirect is a terminal failure (the
\* waiter returns an error); any other type with a non-empty redirect is a
\* terminal success (the waiter returns that redirect).
C8_FailedOnlyPolicy ==
    \A f \in Frames :
        /\ JustClassified(f)
           => IF f.type = "failed" \/ f.redirect = <<>>
              THEN lmsg.err = FailureErr
              ELSE lmsg = [value |-> f.redirect, err |-> ""]
        /\ WaiterGot(f)
           => IF f.type = "failed" \/ f.redirect = <<>>
              THEN wres.err = FailureErr
              ELSE wres.err = "" /\ wres.value = f.redirect

\* C8 amended: a type other than success, or an empty redirect, is a terminal
\* failure (the waiter returns an error); type success with a non-empty
\* redirect is a terminal success (the waiter returns that redirect); every
\* decoded message is one or the other.
C8_SuccessOnlyPolicy ==
    \A f \in Frames :
        /\ JustClassified(f)
           => IF f.type # "success" \/ f.redirect = <<>>
              THEN lmsg.err = FailureErr
              ELSE lmsg = [value |-> f.redirect, err |-> ""]
        /\ WaiterGot(f)
           => IF f.type # "success" \/ f.redirect = <<>>
              THEN wres.err = FailureErr
              ELSE wres.err = "" /\ wres.value = f.redirect

\* The waiter returned an error for a message of an unknown type that carried
\* a redirect.
C8_Witness ==
    /\ wres.done
    /\ delivered = 1
    /\ frames[1].decodable
    /\ frames[1].type = "other"
    /\ frames[1].redirect # <<>>
    /\ wres.err = FailureErr

\* C9: with an empty websocket URL waitForPostSuccess returns the empty
\* redirect and no error, dials nothing and starts no listener.
C9_EmptyAddressIsNoOp ==
    (wres.done /\ websocketURL = "")
    => /\ wres.value = <<>>
       /\ wres.err = ""
       /\ sent["dial"] = 0
       /\ ~wsOpen
       /\ lpc = "none"
       /\ attempts = 0
       /\ frames = <<>>

\* waitForPostSuccess returned for an uploaded asset whose lease carried no
\* websocket URL.
C9_Witness ==
    /\ wres.done
    /\ uasset[1].ID # ""
    /\ uasset[1].Location # ""
    /\ websocketURL = ""
    /\ sent["submit"] = 1
    /\ sent["dial"] = 0

\* C10: when UploadAsset has returned, the temporary file staged for its
\* source no longer exists.
C10_StagedFileRemoved ==
    \A i \in Units : upc[i] \in {"done", "joined"} => i \notin tmpFiles

\* C11: for every source path whose extension is not a supported one,
\* UploadAsset returns the "not supported" error and sends nothing (no
\* download, no lease request, no upload), for a local path and for a remote
\* URL alike.
C11_UnsupportedSendsNothing ==
    \A i \in UsedUnits :
        (upc[i] # "idle" /\ req.paths[i].ext \notin DOMAIN mimeTypes)
        => /\ usent[i]["download"] = 0
           /\ usent[i]["lease"] = 0
           /\ usent[i]["upload"] = 0
           /\ upc[i] \in {"done", "joined"} => uerr[i] = "not supported"

\* C12: SetToken returns an error whenever the exchange fails, the body does
\* not decode or carries no token, and for every response whose status is not
\* 2xx whatever its body; the operation then returns the token error.
C12_TokenFailureIsAuthError ==
    /\ ( /\ pc = "tokenSet"
         /\ \/ ~tresp.transport
            \/ ~tresp.decodeOk
            \/ tresp.token = ""
            \/ tresp.status \notin 200..299 )
       => terr # ""
    /\ (pc = "done" /\ sent["token"] = 1 /\ accessToken = "")
       => result = Failure("setting oauth token")

\* C13: each call that passes validation exchanges the token exactly once,
\* before any download, lease, upload or submission request and before the
\* dial of that call, and every Authorization header of the call carries the
\* token this call's exchange was answered with, never an earlier one.
C13_OneTokenExchangePerCall ==
    /\ sent["token"] <= 1
    /\ (pc \notin {"idle", "setToken"} /\ result # Failure("validation"))
       => sent["token"] = 1
    /\ ( \/ \E i \in Units, k \in {"download", "lease", "upload"} : usent[i][k] > 0
         \/ \E k \in {"submit", "gallery", "dial"} : sent[k] > 0 )
       => sent["token"] = 1
    /\ \A t \in bearer : t = IssuedToken(calls)

\* The second call on a client, returned with an identifier after requests
\* that carried the token of its own exchange.
C13_Witness ==
    /\ calls = 2
    /\ pc = "done"
    /\ result.kind = "ok"
    /\ sent["token"] = 1
    /\ bearer = {IssuedToken(2)}

\* C14: no lease request is sent before the token is stored, no upload before
\* the lease of the same asset succeeded, no submission before every upload
\* of the operation succeeded, and the completion channel is dialed only
\* after the submission POST succeeded.
C14_RemoteCallOrder ==
    /\ \A i \in Units :
          /\ usent[i]["lease"] > 0 => (sent["token"] = 1 /\ accessToken # "")
          /\ usent[i]["upload"] > 0
             => (usent[i]["lease"] = 1 /\ ulease[i] # NoLease)
    /\ (sent["submit"] > 0 \/ sent["gallery"] > 0)
       => \A i \in UsedUnits :
             /\ usent[i]["upload"] = 1
             /\ upc[i] \in {"done", "joined"}
             /\ uerr[i] = ""
    /\ sent["dial"] > 0 => (sent["submit"] = 1 /\ posted)

\* PostVideo with both assets leased and uploaded, the submission posted and
\* the completion channel dialed.
C14_Witness ==
    /\ op = "video"
    /\ \A i \in {1, 2} : usent[i]["lease"] = 1 /\ usent[i]["upload"] = 1
    /\ posted
    /\ sent["dial"] = 1
    /\ wsOpen

\* C15: PostGallery goes past eg.Wait() and returns only when every upload
\* unit it started has finished, and a unit that fails neither cancels the
\* context nor moves any other unit: the others stay where they are and run on.
C15_GalleryJoinsEveryUnit ==
    /\ []( ( /\ op = "gallery"
             /\ pc \in {"submitGallery", "done"}
             /\ \E i \in Units : upc[i] # "idle" )
           => \A i \in UsedUnits : upc[i] = "joined" )
    /\ [][ \A i \in Units :
              (uerr[i] = "" /\ uerr'[i] # "")
              => /\ cancelled' = cancelled
                 /\ \A j \in Units \ {i} :
                       /\ upc'[j] = upc[j]
                       /\ uerr'[j] = uerr[j]
                       /\ uasset'[j] = uasset[j] ]_vars

\* PostGallery returned the error of its first unit, uncancelled, and its
\* second unit leased and uploaded its asset to the end all the same.
C15_Witness ==
    /\ op = "gallery"
    /\ pc = "done"
    /\ ~cancelled
    /\ egErr.unit = 1
    /\ result = Failure("uploading asset")
    /\ upc[2] = "joined"
    /\ uerr[2] = ""
    /\ uasset[2].Location # ""

\* C16: once the context is cancelled every network phase that ends does so
\* with an error (token exchange, download, lease, upload, submission POST,
\* the dial of the completion channel, the listener's read), and the
\* operation does not return an identifier.
C16_CancelAbortsEveryPhase ==
    [][ cancelled =>
          /\ sent'["token"] > sent["token"] => terr' # ""
          /\ \A i \in Units :
                /\ usent'[i]["download"] > usent[i]["download"] => uerr'[i] # ""
                /\ usent'[i]["lease"] > usent[i]["lease"] => uerr'[i] # ""
                /\ usent'[i]["upload"] > usent[i]["upload"] => uerr'[i] # ""
          /\ sent'["submit"] > sent["submit"] => ~posted'
          /\ sent'["gallery"] > sent["gallery"] => result'.kind = "err"
          /\ sent'["dial"] > sent["dial"] => ~wsOpen'
          /\ attempts' > attempts => lmsg'.err # ""
          /\ (pc # "done" /\ pc' = "done") => result'.kind # "ok" ]_vars

\* C17: at most one dial is made in an operation, to the address of the asset
\* the submission was posted for, and no address is dialed a second time.
C17_AddressDialedAtMostOnce ==
    /\ sent["dial"] <= 1
    /\ sent["dial"] = 1
       => /\ op \in {"image", "video"}
          /\ posted
          /\ websocketURL # ""
          /\ websocketURL = ulease[1].WebsocketURL

\* PostVideo returned after its one dial, both the video and the thumbnail
\* having been issued with a completion-channel address.
C17_Witness ==
    /\ op = "video"
    /\ pc = "done"
    /\ uasset[1].WebSocket # ""
    /\ uasset[2].WebSocket # ""
    /\ sent["dial"] = 1
    /\ wres.done

\* C18: PostGallery dials nothing and starts no waiter or listener, even when
\* a lease carried a websocket URL, and the identifier it returns is the one
\* of the gallery response body.
C18_GalleryUsesNoCompletionChannel ==
    op = "gallery"
    => /\ sent["dial"] = 0
       /\ sent["submit"] = 0
       /\ ~wsOpen
       /\ lpc = "none"
       /\ attempts = 0
       /\ ~wres.done
       /\ result.kind = "ok" => (gbody.id # <<>> /\ result.val = gbody.id)

\* PostGallery returned an identifier for assets whose leases all carried a
\* websocket URL.
C18_Witness ==
    /\ op = "gallery"
    /\ pc = "done"
    /\ result.kind = "ok"
    /\ Len(req.paths) = 2
    /\ \A i \in UsedUnits : uasset[i].WebSocket # ""

\* C19: when the gallery endpoint answered with a success status and a body
\* without an identifier at json.data.id, PostGallery returns an error that
\* carries the raw body, and no identifier.
C19_GalleryNoIdIsError ==
    (op = "gallery" /\ pc = "done" /\ gbody # NoBody /\ gbody.id = <<>>)
    => /\ result.kind = "err"
       /\ result.err = gbody.raw
       /\ result.val = <<>>

\* The gallery submission was answered 200 with a body whose json.data.id is
\* empty, after every upload succeeded.
C19_Witness ==
    /\ op = "gallery"
    /\ pc = "done"
    /\ sent["gallery"] = 1
    /\ gbody.raw = "{json:{data:{id:}}}"
    /\ \A i \in UsedUnits : uerr[i] = "" /\ upc[i] = "joined"

\* C20: an asset UploadAsset returns without error has a Location, an upload
\* answered without one ends in the "location" error and no asset, and every
\* asset of an operation that sent its submission has a Location.
C20_NoAssetWithoutLocation ==
    /\ \A i \in Units :
          /\ (upc[i] \in {"done", "joined"} /\ uerr[i] = "")
             => uasset[i].Location # ""
          /\ uerr[i] = "location" => uasset[i] = NoAsset
    /\ (sent["submit"] > 0 \/ sent["gallery"] > 0)
       => \A i \in UsedUnits : uasset[i].Location # ""

\* PostImage returned the upload error after the upload was answered with a
\* success status and no Location; nothing was submitted.
C20_Witness ==
    /\ op = "image"
    /\ pc = "done"
    /\ usent[1]["upload"] = 1
    /\ uerr[1] = "location"
    /\ result = Failure("uploading asset")
    /\ sent["submit"] = 0

\* A request of the given phase that failed or was answered with a status
\* that is not a success one.
NotOk(phase) == [phase |-> phase, ok |-> FALSE]

\* C21: when the lease request of an asset fails or is answered with a
\* non-success status, UploadAsset returns an error and no asset, and no
\* upload request is sent for that asset.
C21_LeaseFailureStopsUpload ==
    \A i \in Units :
        uresp[i] = NotOk("lease")
        => /\ upc[i] \in {"done", "joined"}
           /\ uerr[i] # ""
           /\ uasset[i] = NoAsset
           /\ usent[i]["upload"] = 0

\* PostImage returned the upload error after its lease request was not
\* answered with a success status; no upload was sent.
C21_Witness ==
    /\ op = "image"
    /\ pc = "done"
    /\ uresp[1] = NotOk("lease")
    /\ usent[1]["lease"] = 1
    /\ usent[1]["upload"] = 0
    /\ result = Failure("uploading asset")
    /\ cause = "lease"

\* C22: a source is downloaded exactly when it has a scheme and a host; a
\* download that fails or is answered with another status than 200 makes
\* UploadAsset return the download error with no lease request and no upload
\* sent; a source that is not a URL is never downloaded nor staged.
C22_DownloadExactlyForRemote ==
    \A i \in UsedUnits :
        LET remote == req.paths[i].scheme # "" /\ req.paths[i].host # ""
        IN  /\ usent[i]["download"] > 0 => remote
            /\ (remote /\ upc[i] \notin {"idle", "download"})
               => usent[i]["download"] = 1
            /\ ~remote => (usent[i]["download"] = 0 /\ ~ustaged[i]
                           /\ i \notin tmpFiles)
            /\ uresp[i] = NotOk("download")
               => /\ upc[i] \in {"done", "joined"}
                  /\ uerr[i] = "download"
                  /\ uasset[i] = NoAsset
                  /\ usent[i]["lease"] = 0
                  /\ usent[i]["upload"] = 0

\* PostImage of a remote URL returned the download error after a GET that
\* was not answered 200; nothing else was sent for the asset.
C22_Witness ==
    /\ op = "image"
    /\ pc = "done"
    /\ req.paths = <<RemotePng>>
    /\ ~cancelled
    /\ uresp[1] = NotOk("download")
    /\ usent[1]["download"] = 1
    /\ usent[1]["lease"] = 0
    /\ cause = "download"

\* The first thing ReadMessage returned is bytes that do not decode.
FirstFrameUndecodable ==
    /\ Len(frames) >= 1
    /\ ~frames[1].readErr
    /\ ~frames[1].decodable

\* C23: waitForPostSuccess returns an error and no redirect when the dial of
\* a non-empty address fails (the dial error) and when the message received
\* does not decode (the unmarshalling error when the waiter takes the
\* listener's msg, the context's error when it is cancelled first).
C23_ChannelErrorOnDialOrDecodeFailure ==
    /\ (wres.done /\ sent["dial"] = 1 /\ lpc = "none")
       => (wres.err = "dialing websocket connection" /\ wres.value = <<>>)
    /\ (wres.done /\ FirstFrameUndecodable)
       => (wres.err # "" /\ wres.value = <<>> /\ result.kind = "err")
    /\ (wres.done /\ FirstFrameUndecodable /\ delivered = 1)
       => wres.err = "unmarshalling websocket message"

\* The waiter took the listener's msg for bytes that do not decode and
\* waitForPostSuccess returned the unmarshalling error.
C23_Witness ==
    /\ wres.done
    /\ FirstFrameUndecodable
    /\ delivered = 1
    /\ ~cancelled
    /\ wres.err = "unmarshalling websocket message"
    /\ result = Failure("waiting for post success")

\* A remote request of the operation failed: the token exchange gave no
\* token, a request of a unit failed or was answered with a bad status or
\* its UploadAsset returned an error, the submission was not accepted, or
\* the dial failed.
SomePhaseFailed ==
    \/ sent["token"] = 1 /\ accessToken # IssuedToken(calls)
    \/ \E i \in Units : (uresp[i].phase # "" /\ ~uresp[i].ok) \/ uerr[i] # ""
    \/ sent["submit"] = 1 /\ ~posted
    \/ sent["gallery"] = 1 /\ gbody = NoBody
    \/ sent["dial"] = 1 /\ lpc = "none"

C25_TokenWrittenBeforeUnits ==
    /\ [](sent["token"] <= 1)
    /\ [][ (accessToken' # accessToken \/ sent'["token"] > sent["token"])
           => /\ pc = "setToken"
              /\ \A i \in Units : upc[i] = "idle" /\ upc'[i] = "idle" ]_vars

\* Two upload units of PostGallery are at their lease requests, which read
\* the token stored by the one exchange of the call.
C25_Witness ==
    /\ op = "gallery"
    /\ pc = "egWait"
    /\ upc[1] = "lease"
    /\ upc[2] = "lease"
    /\ sent["token"] = 1
    /\ accessToken = IssuedToken(1)

\* What the content type of the lease form must be for an extension.
DeclaredType(ext) ==
    IF ext = ".png" THEN "image/png"
    ELSE IF ext = ".jpg" THEN "image/jpeg"
    ELSE IF ext = ".jpeg" THEN "image/jpeg"
    ELSE IF ext = ".gif" THEN "image/gif"
    ELSE IF ext = ".mp4" THEN "video/mp4"
    ELSE IF ext = ".mov" THEN "video/quicktime"
    ELSE "none"

\* C26: the listener's policy (not exactly success) and the sibling's policy
\* (failed only), applied to the same message, give the same msg except for
\* a decoded message with a non-empty redirect and a type other than success
\* and failed: there the listener sends an error and the sibling policy gives
\* the redirect.
C26_PoliciesDifferOnUnknownTypes ==
    (lpc = "send" /\ Len(frames) >= 1)
    => LET f == frames[Len(frames)]
       IN  IF f.decodable /\ f.redirect # <<>>
              /\ f.type \notin {"success", "failed"}
           THEN /\ lmsg.err = FailureErr
                /\ lmsg.value = <<>>
                /\ ClassifySibling(f) = [value |-> f.redirect, err |-> ""]
           ELSE lmsg = ClassifySibling(f)

\* The listener sends an error for a message of an unknown type carrying a
\* redirect, which the sibling policy would have returned.
C26_Witness ==
    /\ lpc = "send"
    /\ Len(frames) = 1
    /\ frames[1].decodable
    /\ frames[1].type = "other"
    /\ frames[1].redirect # <<>>
    /\ lmsg.err = FailureErr
    /\ ClassifySibling(frames[1]).err = ""
    /\ ClassifySibling(frames[1]).value = frames[1].redirect

\* C27: when an operation that returned an identifier is called again with
\* the same request and returns an identifier again, the second call made
\* its own token exchange, its own lease and upload for every asset (and its
\* own download of a remote source), and its own submission, as the first
\* did; the assets it submitted are those of its own leases, none of the
\* first call's.
C27_SecondCallRepeatsEverything ==
    (calls >= 2 /\ prev # NoPrev /\ pc = "done" /\ result.kind = "ok")
    => /\ prev.result.kind = "ok"
       /\ prev.submits = 1
       /\ sent["submit"] + sent["gallery"] = 1
       /\ sent["token"] = 1
       /\ bearer = {IssuedToken(calls)}
       /\ \A i \in UsedUnits :
             /\ usent[i]["lease"] = 1
             /\ usent[i]["upload"] = 1
             /\ usent[i]["download"] =
                   (IF req.paths[i].scheme # "" /\ req.paths[i].host # ""
                    THEN 1 ELSE 0)
             /\ uasset[i].ID = ulease[i].AssedID
             /\ uasset[i].ID \notin prev.ids
             /\ uasset[i].Location # ""

\* PostImage of the same local file returned an identifier twice: the second
\* call leased and uploaded asset b1, the first a1.
C27_Witness ==
    /\ calls = 2
    /\ op = "image"
    /\ req.paths = <<LocalJpeg>>
    /\ pc = "done"
    /\ result.kind = "ok"
    /\ prev.result.kind = "ok"
    /\ prev.ids = {"a1"}
    /\ uasset[1].ID = "b1"
    /\ sent["submit"] = 1
    /\ prev.submits = 1

\* C28: a lease request is sent only for a supported extension, and its form
\* declares the content type of that extension: .png image/png, .jpg and
\* .jpeg image/jpeg, .gif image/gif, .mp4 video/mp4, .mov video/quicktime.
C28_LeaseDeclaresContentType ==
    \A i \in UsedUnits :
        (upc[i] = "lease" \/ usent[i]["lease"] > 0)
        => /\ req.paths[i].ext \in {".png", ".jpg", ".jpeg", ".gif", ".mp4", ".mov"}
           /\ umime[i] = DeclaredType(req.paths[i].ext)

\* PostImage sent the lease request of a .mov file with video/quicktime.
C28_Witness ==
    /\ op = "image"
    /\ req.paths = <<LocalMov>>
    /\ usent[1]["lease"] = 1
    /\ umime[1] = "video/quicktime"

\* C29: the error the errgroup holds is the one of the unit that returned an
\* error first, whatever its position; it never changes afterwards, and it is
\* the one error PostGallery wraps when a unit failed.
C29_FirstRecordedErrorReported ==
    /\ [][ egErr # NoErr => egErr' = egErr ]_vars
    /\ [][ \A i \in Units :
              ( /\ op = "gallery"
                /\ egErr = NoErr
                /\ upc[i] # "joined"
                /\ upc'[i] = "joined"
                /\ uerr'[i] # "" )
              => egErr' = [unit |-> i, err |-> uerr'[i]] ]_vars
    /\ []( (op = "gallery" /\ pc = "done" /\ \E i \in Units : uerr[i] # "")
           => /\ result = Failure("uploading asset")
              /\ egErr.unit \in UsedUnits
              /\ egErr.err = uerr[egErr.unit]
              /\ cause = egErr.err )

\* Both units of a gallery failed, with different errors; the second
\* position failed first and its error is the one PostGallery returned.
C29_Witness ==
    /\ op = "gallery"
    /\ pc = "done"
    /\ Len(req.paths) = 2
    /\ uerr[1] # ""
    /\ uerr[2] # ""
    /\ uerr[1] # uerr[2]
    /\ egErr.unit = 2
    /\ cause = uerr[2]
    /\ result = Failure("uploading asset")

\* C30: in PostVideo the thumbnail's UploadAsset starts only after the
\* video's returned an asset, nothing is sent for the thumbnail when the
\* video's returned an error, and the only address ever dialed is the one
\* issued with the video's lease.
C30_VideoChannelOnly ==
    op = "video"
    => /\ upc[2] # "idle"
          => (upc[1] = "done" /\ uerr[1] = "" /\ usent[1]["upload"] = 1)
       /\ uerr[1] # ""
          => \A k \in {"download", "lease", "upload"} : usent[2][k] = 0
       /\ sent["dial"] > 0
          => (dialed # "" /\ dialed = ulease[1].WebsocketURL)
       /\ dialed # "" => dialed # ulease[2].WebsocketURL

\* PostVideo returned an identifier after dialing the video's address; the
\* thumbnail's lease had issued another one.
C30_Witness ==
    /\ op = "video"
    /\ pc = "done"
    /\ result.kind = "ok"
    /\ ulease[1].WebsocketURL = "wss://c"
    /\ ulease[2].WebsocketURL = "wss://d"
    /\ sent["dial"] = 1
    /\ dialed = "wss://c"

\* C31: the multipart body of an upload request that was sent holds one part
\* per field of the lease response, in the lease's order and with the field's
\* name and value, then the file part under the name "file" with the base
\* name of the source and the content of the opened file, and nothing else;
\* the writer was closed before the request was sent.  No body is built for
\* a request that is not sent.
C31_MultipartBodyComplete ==
    \A i \in Units :
        IF usent[i]["upload"] = 0
        THEN ubody[i] = NewWriter
        ELSE LET fields == ulease[i].Fields
                 parts == ubody[i].parts
             IN  /\ ubody[i].closed
                 /\ Len(parts) = Len(fields) + 1
                 /\ \A j \in 1..Len(fields) :
                       /\ parts[j].name = fields[j].Name
                       /\ parts[j].content = fields[j].Value
                       /\ parts[j].filename = ""
                 /\ parts[Len(parts)].name = "file"
                 /\ parts[Len(parts)].filename
                       = <<req.paths[i].name, req.paths[i].ext>>
                 /\ parts[Len(parts)].content
                       = (IF ustaged[i] THEN "redmed*" ELSE req.paths[i].name)

\* The upload request of a downloaded image was sent with the two fields of
\* its lease, key and policy, ahead of the file part, the writer closed.
C31_Witness ==
    /\ op = "image"
    /\ req.paths = <<RemotePng>>
    /\ usent[1]["upload"] = 1
    /\ Len(ulease[1].Fields) = 2
    /\ ubody[1].closed
    /\ Len(ubody[1].parts) = 3
    /\ ubody[1].parts[1].name = "key"
    /\ ubody[1].parts[2].name = "policy"
    /\ ubody[1].parts[3].name = "file"
    /\ ubody[1].parts[3].content = "redmed*"

\* The dial of waitForPostSuccess succeeded.
Established == sent["dial"] = 1 /\ lpc # "none"

\* C32: when waitForPostSuccess has returned after the dial succeeded, with a
\* redirect, with the listener's error (terminal failure, read error, decode
\* error), with the context's error or with the zero msg of the closed
\* channel, the connection is closed; and it is the return that closes it.
C32_ConnectionClosedOnReturn ==
    /\ [](wres.done /\ Established => ~wsOpen)
    /\ [][ (Established /\ ~wres.done /\ wres'.done) => (wsOpen /\ ~wsOpen') ]_vars

\* waitForPostSuccess returned the context's error after a successful dial
\* and the connection is closed.
C32_Witness ==
    /\ wres.done
    /\ Established
    /\ cancelled
    /\ wres.err = CtxErr.err
    /\ frames = <<>>
    /\ ~wsOpen

\* C33: whatever redirect waitForPostSuccess returns without an error (the
\* empty one of an asset without a websocket URL and redirects of fewer than
\* three components included), SubmitPost returns an identifier or an error:
\* it does not index the split redirect out of range.
C33_SubmitPostNeverPanics ==
    (op \in {"image", "video"} /\ wres.done /\ wres.err = "")
    => result.kind \in {"ok", "err"}

\* C34: once waitForPostSuccess has returned after a successful dial, its
\* listener goroutine eventually returns.
C34_ListenerTerminates ==
    (wres.done /\ Established) ~> (lpc = "exit")

\* C35: after a successful dial, once ReadMessage has returned to the
\* listener (a message, or the error of a connection the remote side closed)
\* or the context is cancelled, waitForPostSuccess eventually returns; and
\* when the first thing ReadMessage returned is an error, what it returns is
\* an error and no redirect.
C35_WaitEventuallyReturns ==
    /\ (Established /\ (lpc = "send" \/ cancelled)) ~> wres.done
    /\ []( (wres.done /\ frames # <<>> /\ frames[1] = ReadError)
           => (wres.err # "" /\ wres.value = <<>>) )

\* The remote side closed the connection before any message: the listener's
\* read failed, the waiter took its msg and waitForPostSuccess returned the
\* read error.
C35_Witness ==
    /\ wres.done
    /\ Established
    /\ ~cancelled
    /\ frames = <<ReadError>>
    /\ delivered = 1
    /\ wres.err = "reading websocket message"

\* The request of the operation called does not pass validation.
Invalid ==
    \/ op = "image" /\ req.paths[1] = NoPath
    \/ op = "video" /\ ( \/ req.paths[1] = NoPath
                         \/ req.paths[2] = NoPath
                         \/ req.kind \notin {"video", "videogif"} )
    \/ op = "gallery" /\ req.paths = <<>>

\* C36: an operation called with a request that fails validation has returned
\* the validation error at once, having sent nothing (no token exchange, no
\* download, lease, upload, submission or dial), and accessToken is what it
\* was before the call.
C36_InvalidRequestSendsNothing ==
    /\ []( Invalid
           => /\ pc = "done"
              /\ result = Failure("validation")
              /\ \A k \in {"token", "submit", "gallery", "dial"} : sent[k] = 0
              /\ \A i \in Units, k \in {"download", "lease", "upload"} :
                    usent[i][k] = 0
              /\ bearer = {} )
    /\ [][ Invalid' => accessToken' = accessToken ]_vars

\* The second call on a client, PostVideo with the kind "image", returned the
\* validation error; the client still holds the token of the first call.
C36_Witness ==
    /\ calls = 2
    /\ op = "video"
    /\ req.paths[1] # NoPath
    /\ req.paths[2] # NoPath
    /\ req.kind = "image"
    /\ pc = "done"
    /\ result = Failure("validation")
    /\ accessToken = IssuedToken(1)
    /\ sent["token"] = 0

\* What makes doRequest fail for a response, v telling whether a decode of
\* the body was requested.
MustFail(resp, v) ==
    \/ ~resp.transport
    \/ ~resp.readOk
    \/ resp.status \notin {200, 201}
    \/ v /\ ~resp.decodeOk

\* C37: doRequest returns an error exactly when the transport fails, the body
\* cannot be read, the status is neither 200 nor 201, or the requested decode
\* fails; seen at the gallery submission, whose doRequest decodes into pgr:
\* it returned no body and PostGallery an error exactly for such a response,
\* and nothing was decoded when the status was another one.
C37_DoRequestErrorExactly ==
    /\ \A resp \in Responses, v \in BOOLEAN :
          (doRequest(resp, v) # "") <=> MustFail(resp, v)
    /\ sent["gallery"] = 1
       => /\ (gbody = NoBody) <=> MustFail(gresp, TRUE)
          /\ gbody = NoBody => result = Failure("submitting post")
          /\ gresp.status \notin {200, 201} => gbody = NoBody

\* The gallery submission was answered 204 with a body that would decode:
\* doRequest returned an error and decoded nothing.
C37_Witness ==
    /\ sent["gallery"] = 1
    /\ gresp.transport
    /\ gresp.readOk
    /\ gresp.decodeOk
    /\ gresp.status = 204
    /\ gbody = NoBody
    /\ result = Failure("submitting post")

\* C38: the units of a gallery share nothing but their own slots of items: a
\* unit returns the download error only if its own download failed, a unit
\* whose own download failed does not go on to the upload step, and a unit
\* whose download succeeded has removed its staged file when it returns.
C38_UnitsShareNothing ==
    op = "gallery"
    => \A i \in UsedUnits :
          /\ uerr[i] = "downloading" => dlErr[i] = "download"
          /\ dlErr[i] = "download"
             => (upc[i] # "uploadMedia" /\ ~ustaged[i] /\ usent[i]["lease"] = 0)
          /\ (dlErr[i] = "" /\ upc[i] = "joined") => i \notin tmpFiles

\* C39: when two operations run concurrently on the same client, every lease
\* and submission request of each of them carries the token that operation's
\* own exchange was answered with: the stored token is not replaced by one
\* operation between the other's exchange and its last read of the token.
C39_EachOperationCarriesItsOwnToken ==
    /\ \A t \in bearer : t = IssuedToken(calls)
    /\ other.bearer \in {"", OtherToken}

====
